---------------------------- MODULE Spec2Model ----------------------------
(***************************************************************************)
(* Custodial wagering ledger (kachence/sols.bet, Anchor programs).         *)
(*                                                                         *)
(* The repository holds four generations of the vault program:             *)
(*   src/contract/lib.rs           two-phase place_bet / settle_game       *)
(*   src/contract/airdrop.rs       bet_and_settle with gem rewards         *)
(*   src/contract/batch-settle.rs  signed-profit batch_settle (not          *)
(*                                 modelled below)                         *)
(*   src/contract/src/lib.rs       smart_vault_v2: pause gate,             *)
(*                                 bet_and_settle, batch_settle            *)
(* Every handler is an operator from a ledger record to a result           *)
(* [err, st]: err is "Ok" or the error the handler returns, st the state   *)
(* the handler has written when it returns.  The host commits st only when *)
(* the instruction returns Ok (Commit).                                    *)
(***************************************************************************)
EXTENDS Integers, Sequences, FiniteSets, TLC

VARIABLES
    program,        \* which generation of the program is deployed
    balance,        \* lamports of each user vault account
    house,          \* lamports of the house vault account
    locked_amount,  \* UserVault.locked_amount
    active_games,   \* UserVault.active_games
    accum_wager,    \* UserVault.accum_wager
    total_volume,   \* HouseVault.total_volume (smart_vault_v2)
    pause_config,   \* PauseConfig account (smart_vault_v2)
    house_authority,\* HouseVault.multisig_authority / admin_authority
    now,            \* Clock unix_timestamp, seconds
    last,           \* the last instruction: name and result
    event,          \* the GemsAwarded event the last instruction emitted
    draw,           \* multiplier and roll value of a one-roll reward bet
    wagered         \* stakes and rolls of the reward bets made so far

ledger == <<balance, house, locked_amount, active_games, accum_wager,
            total_volume>>
vars == <<program, balance, house, locked_amount, active_games, accum_wager,
          total_volume, pause_config, house_authority, now, last, event, draw,
          wagered>>

---------------------------------------------------------------------------
(* Bounds of the model *)

\* cap on the lamports held by the vaults and the house together
MaxSupply == 3
\* lamports the house vault holds initially
InitHouse == 1
\* largest amount / stake / payout argument tried
MaxAmount == 2
\* cap on UserVault.active_games (a u32 in the program)
MaxGames == 2
\* the model's u64::MAX: the largest value a u64 field or lamport count holds
U64_MAX == 1000

Vaults == {"v1", "v2"}
Amounts == 0..MaxAmount

---------------------------------------------------------------------------
(* Identities *)

AUTHORITY_PUBKEY == "CBKPbzTq"
MULTISIG == "BMprzPNF"
ADMIN == "4y1oXmhe"
Stranger == "stranger"
\* signers tried on the settlement instructions
Callers == {AUTHORITY_PUBKEY, ADMIN}

---------------------------------------------------------------------------
(* Helpers *)

RECURSIVE SumOver(_, _)
SumOver(f, S) ==
    IF S = {} THEN 0
    ELSE LET x == CHOOSE y \in S : TRUE IN f[x] + SumOver(f, S \ {x})

\* the current ledger as a record
\* wallet: the lamports of each vault owner's wallet as the call finds them;
\* wallets are accounts outside the program, so they are an input of the
\* call and not part of the state
Ledger ==
    [balance |-> balance, wallet |-> [v \in Vaults |-> 0], house |-> house,
     locked_amount |-> locked_amount, active_games |-> active_games,
     accum_wager |-> accum_wager, total_volume |-> total_volume]

Ok(s) == [err |-> "Ok", st |-> s]
Err(e, s) == [err |-> e, st |-> s]

\* u64::saturating_sub
saturating_sub(a, b) == IF a >= b THEN a - b ELSE 0

\* lamports held by the vaults and the house
Total(s) == SumOver(s.balance, Vaults) + s.house

\* the host's atomic invocation envelope: state written by an instruction
\* that returns an error is discarded
Commit(r) ==
    IF r.err = "Ok"
    THEN /\ balance' = r.st.balance
         /\ house' = r.st.house
         /\ locked_amount' = r.st.locked_amount
         /\ active_games' = r.st.active_games
         /\ accum_wager' = r.st.accum_wager
         /\ total_volume' = r.st.total_volume
    ELSE UNCHANGED ledger

NoEvent == [emitted |-> FALSE, gems |-> <<>>, num_rolls |-> 0]

Call(op, r) ==
    /\ Commit(r)
    /\ last' = [op |-> op, err |-> r.err]
    /\ event' = NoEvent
    /\ UNCHANGED <<program, house_authority, draw, wagered>>

NoCall == [op |-> "none", err |-> "Ok"]

\* variant of Committed that keeps what a failed instruction wrote
Committed_keeping_writes(s, r) == r.st

\* the ledger an instruction that returned r leaves behind, from ledger s
Committed(s, r) == IF r.err = "Ok" THEN r.st ELSE s

\* the ledger with the wallet of v's owner holding n lamports
WithWallet(s, v, n) == [s EXCEPT !.wallet[v] = n]

---------------------------------------------------------------------------
(* src/contract/lib.rs: smart_vault *)

\* deposit: system-program transfer from the owner's wallet to the vault
sv_deposit(s, v, amount) ==
    IF ~(amount > 0) THEN Err("InvalidAmount", s)
    ELSE IF s.wallet[v] < amount THEN Err("InsufficientLamports", s)
    ELSE Ok([s EXCEPT !.wallet[v] = @ - amount, !.balance[v] = @ + amount])

\* variant of sv_withdraw that pays out while games are in progress
sv_withdraw_during_games(s, v, amount) ==
    IF ~(amount > 0) THEN Err("InvalidAmount", s)
    ELSE IF ~(s.balance[v] >= amount) THEN Err("InsufficientFunds", s)
    ELSE Ok([s EXCEPT !.balance[v] = @ - amount, !.wallet[v] = @ + amount])

sv_withdraw(s, v, amount) ==
    IF ~(amount > 0) THEN Err("InvalidAmount", s)
    ELSE IF ~(s.active_games[v] = 0) THEN Err("GamesInProgress", s)
    ELSE IF ~(s.balance[v] >= amount) THEN Err("InsufficientFunds", s)
    ELSE Ok([s EXCEPT !.balance[v] = @ - amount, !.wallet[v] = @ + amount])

\* variant of authority_constraint that admits every signer
authority_constraint_signer_only(caller) == TRUE

\* #[account(signer, address = AUTHORITY_PUBKEY)] on the authority account:
\* Anchor rejects the instruction before the handler runs
authority_constraint(caller) == caller = AUTHORITY_PUBKEY

\* variant of available that disregards the lock
available_ignoring_lock(s, v) == s.balance[v]

\* the lamports of vault v not locked against a game in flight
available(s, v) == saturating_sub(s.balance[v], s.locked_amount[v])

place_bet(s, caller, v, stake) ==
    IF ~authority_constraint(caller) THEN Err("ConstraintAddress", s)
    ELSE IF ~(stake > 0) THEN Err("InvalidAmount", s)
    ELSE IF ~(caller = AUTHORITY_PUBKEY) THEN Err("Unauthorized", s)
    ELSE IF ~(available(s, v) >= stake) THEN Err("InsufficientFunds", s)
    ELSE IF stake > U64_MAX - s.locked_amount[v] THEN Err("Overflow", s)
    ELSE Ok([s EXCEPT !.locked_amount[v] = @ + stake,
                      !.active_games[v] = @ + 1,
                      !.balance[v] = @ - stake,
                      !.house = @ + stake])

\* variant of unlock that leaves the stake locked
unlock_keeping_stake(s, v, stake) == [s EXCEPT !.active_games[v] = @ - 1]

\* settle_game step 1: the stake leaves the lock, the game ends
unlock(s, v, stake) ==
    [s EXCEPT !.locked_amount[v] = @ - stake, !.active_games[v] = @ - 1]

settle_game(s, caller, v, stake, payout) ==
    IF ~authority_constraint(caller) THEN Err("ConstraintAddress", s)
    ELSE IF ~(stake > 0) THEN Err("InvalidAmount", s)
    ELSE IF ~(caller = AUTHORITY_PUBKEY) THEN Err("Unauthorized", s)
    ELSE IF ~(s.active_games[v] > 0) THEN Err("NoActiveGame", s)
    ELSE IF ~(s.locked_amount[v] >= stake) THEN Err("SettlementMismatch", s)
    ELSE LET s1 == unlock(s, v, stake) IN
         IF payout > 0
         THEN IF ~(s1.house >= payout) THEN Err("HouseInsufficient", s1)
              ELSE Ok([s1 EXCEPT !.house = @ - payout,
                                 !.balance[v] = @ + payout])
         ELSE Ok(s1)

\* variant of credit_win that pays without debiting the house
credit_win_undebited(s, caller, v, amount) ==
    IF ~authority_constraint(caller) THEN Err("ConstraintAddress", s)
    ELSE IF ~(amount > 0) THEN Err("InvalidAmount", s)
    ELSE IF ~(caller = AUTHORITY_PUBKEY) THEN Err("Unauthorized", s)
    ELSE IF ~(s.house >= amount) THEN Err("HouseInsufficient", s)
    ELSE Ok([s EXCEPT !.balance[v] = @ + amount])

credit_win(s, caller, v, amount) ==
    IF ~authority_constraint(caller) THEN Err("ConstraintAddress", s)
    ELSE IF ~(amount > 0) THEN Err("InvalidAmount", s)
    ELSE IF ~(caller = AUTHORITY_PUBKEY) THEN Err("Unauthorized", s)
    ELSE IF ~(s.house >= amount) THEN Err("HouseInsufficient", s)
    ELSE Ok([s EXCEPT !.house = @ - amount, !.balance[v] = @ + amount])

\* variant of debit_loss that also releases the debited amount from the lock
debit_loss_releasing_lock(s, caller, v, amount) ==
    IF ~authority_constraint(caller) THEN Err("ConstraintAddress", s)
    ELSE IF ~(amount > 0) THEN Err("InvalidAmount", s)
    ELSE IF ~(caller = AUTHORITY_PUBKEY) THEN Err("Unauthorized", s)
    ELSE IF ~(s.balance[v] >= amount) THEN Err("InsufficientFunds", s)
    ELSE Ok([s EXCEPT !.balance[v] = @ - amount, !.house = @ + amount,
                      !.locked_amount[v] = saturating_sub(@, amount)])

debit_loss(s, caller, v, amount) ==
    IF ~authority_constraint(caller) THEN Err("ConstraintAddress", s)
    ELSE IF ~(amount > 0) THEN Err("InvalidAmount", s)
    ELSE IF ~(caller = AUTHORITY_PUBKEY) THEN Err("Unauthorized", s)
    ELSE IF ~(s.balance[v] >= amount) THEN Err("InsufficientFunds", s)
    ELSE Ok([s EXCEPT !.balance[v] = @ - amount, !.house = @ + amount])

SvDeposit ==
    \E v \in Vaults, amount \in Amounts, user_lamports \in Amounts :
        /\ program = "smart_vault"
        /\ Total(Ledger) + amount <= MaxSupply
        /\ Call("deposit", sv_deposit(WithWallet(Ledger, v, user_lamports), v, amount))
        /\ UNCHANGED <<pause_config, now>>

SvWithdraw ==
    \E v \in Vaults, amount \in Amounts :
        /\ program = "smart_vault"
        /\ Call("withdraw", sv_withdraw(Ledger, v, amount))
        /\ UNCHANGED <<pause_config, now>>

PlaceBet ==
    \E caller \in Callers, v \in Vaults, stake \in Amounts :
        /\ program = "smart_vault"
        /\ active_games[v] < MaxGames
        /\ Call("place_bet", place_bet(Ledger, caller, v, stake))
        /\ UNCHANGED <<pause_config, now>>

SettleGame ==
    \E caller \in Callers, v \in Vaults, stake \in Amounts, payout \in Amounts :
        /\ program = "smart_vault"
        /\ Call("settle_game", settle_game(Ledger, caller, v, stake, payout))
        /\ UNCHANGED <<pause_config, now>>

CreditWin ==
    \E caller \in Callers, v \in Vaults, amount \in Amounts :
        /\ program = "smart_vault"
        /\ Call("credit_win", credit_win(Ledger, caller, v, amount))
        /\ UNCHANGED <<pause_config, now>>

DebitLoss ==
    \E caller \in Callers, v \in Vaults, amount \in Amounts :
        /\ program = "smart_vault"
        /\ Call("debit_loss", debit_loss(Ledger, caller, v, amount))
        /\ UNCHANGED <<pause_config, now>>

---------------------------------------------------------------------------
(* src/contract/src/lib.rs: smart_vault_v2 *)

\* `as u8` on a non-negative i64
AsU8(x) == x % 256

\* variant of local_pause_config that compares seconds with hours
local_pause_config_seconds(cfg, t) ==
    IF cfg.maintenance_pause
    THEN LET elapsed_seconds == t - cfg.maintenance_start_time IN
         IF AsU8(elapsed_seconds) >= cfg.maintenance_duration_hours
         THEN [cfg EXCEPT !.maintenance_pause = FALSE,
                          !.maintenance_start_time = 0]
         ELSE cfg
    ELSE cfg

\* the pause check each gated handler runs on its own clone of PauseConfig:
\* a maintenance pause whose hours have elapsed is cleared in the clone
local_pause_config(cfg, t) ==
    IF cfg.maintenance_pause
    THEN LET elapsed_seconds == t - cfg.maintenance_start_time
             elapsed_hours == AsU8(elapsed_seconds \div 3600)
         IN  IF elapsed_hours >= cfg.maintenance_duration_hours
             THEN [cfg EXCEPT !.maintenance_pause = FALSE,
                              !.maintenance_start_time = 0]
             ELSE cfg
    ELSE cfg

\* variant of pause_gate that tests the maintenance flag first and lets a
\* lapsed maintenance pause open the gate
pause_gate_maintenance_first(cfg, t) ==
    IF cfg.maintenance_pause
    THEN IF local_pause_config(cfg, t).maintenance_pause
         THEN "MaintenancePaused" ELSE "Ok"
    ELSE IF cfg.emergency_pause THEN "EmergencyPaused"
    ELSE "Ok"

pause_gate(cfg, t) ==
    LET pc == local_pause_config(cfg, t) IN
    IF pc.emergency_pause THEN "EmergencyPaused"
    ELSE IF pc.maintenance_pause THEN "MaintenancePaused"
    ELSE "Ok"

\* Account<PauseConfig> in the instruction's accounts: Anchor rejects the
\* instruction when the account has been closed
pause_account(cfg) == cfg.exists

deposit(s, cfg, t, v, amount) ==
    IF ~pause_account(cfg) THEN Err("AccountNotInitialized", s)
    ELSE IF ~(amount > 0) THEN Err("InvalidAmount", s)
    ELSE IF pause_gate(cfg, t) # "Ok" THEN Err(pause_gate(cfg, t), s)
    ELSE IF s.wallet[v] < amount THEN Err("InsufficientLamports", s)
    ELSE Ok([s EXCEPT !.wallet[v] = @ - amount, !.balance[v] = @ + amount])

\* variant of withdraw that debits the vault and pays the owner nothing
withdraw_unpaid(s, cfg, t, v, amount) ==
    IF ~pause_account(cfg) THEN Err("AccountNotInitialized", s)
    ELSE IF ~(amount > 0) THEN Err("InvalidAmount", s)
    ELSE IF pause_gate(cfg, t) # "Ok" THEN Err(pause_gate(cfg, t), s)
    ELSE IF ~(s.active_games[v] = 0) THEN Err("GamesInProgress", s)
    ELSE IF ~(s.balance[v] >= amount) THEN Err("InsufficientFunds", s)
    ELSE Ok([s EXCEPT !.balance[v] = @ - amount])

withdraw(s, cfg, t, v, amount) ==
    IF ~pause_account(cfg) THEN Err("AccountNotInitialized", s)
    ELSE IF ~(amount > 0) THEN Err("InvalidAmount", s)
    ELSE IF pause_gate(cfg, t) # "Ok" THEN Err(pause_gate(cfg, t), s)
    ELSE IF ~(s.active_games[v] = 0) THEN Err("GamesInProgress", s)
    ELSE IF ~(s.balance[v] >= amount) THEN Err("InsufficientFunds", s)
    ELSE Ok([s EXCEPT !.balance[v] = @ - amount, !.wallet[v] = @ + amount])

\* u64::checked_add
checked_add_overflows(a, b) == b > U64_MAX - a

\* variant of settle that pays a win without looking at the house balance
settle_house_unchecked(s, v, stake, payout) ==
    IF ~(s.balance[v] >= stake) THEN Err("InsufficientFunds", s)
    ELSE IF stake > 0 /\ checked_add_overflows(s.total_volume, stake)
    THEN Err("Overflow", s)
    ELSE Ok([s EXCEPT !.balance[v] = (@ + payout) - stake,
                      !.house = (@ + stake) - payout,
                      !.total_volume = @ + stake])

\* variant of settle that keeps no count of the volume
settle_volume_uncounted(s, v, stake, payout) ==
    IF ~(s.balance[v] >= stake) THEN Err("InsufficientFunds", s)
    ELSE IF payout > stake /\ ~(s.house >= payout - stake)
    THEN Err("HouseInsufficient", s)
    ELSE Ok([s EXCEPT !.balance[v] = (@ + payout) - stake,
                      !.house = (@ + stake) - payout])

\* variant of settle whose volume counter wraps around at u64::MAX
settle_volume_wrapping(s, v, stake, payout) ==
    IF ~(s.balance[v] >= stake) THEN Err("InsufficientFunds", s)
    ELSE IF payout > stake /\ ~(s.house >= payout - stake)
    THEN Err("HouseInsufficient", s)
    ELSE Ok([s EXCEPT !.balance[v] = (@ + payout) - stake,
                      !.house = (@ + stake) - payout,
                      !.total_volume = (@ + stake) % (U64_MAX + 1)])

\* the stake / payout logic of bet_and_settle on vault v
settle(s, v, stake, payout) ==
    IF stake > 0 /\ ~(s.balance[v] >= stake) THEN Err("InsufficientFunds", s)
    ELSE IF stake > 0 /\ checked_add_overflows(s.total_volume, stake)
    THEN Err("Overflow", s)
    ELSE LET s1 == IF stake > 0
                   THEN [s EXCEPT !.total_volume = @ + stake]
                   ELSE s
         IN
         IF stake = 0
         THEN IF payout > 0
              THEN IF ~(s1.house >= payout) THEN Err("HouseInsufficient", s1)
                   ELSE Ok([s1 EXCEPT !.house = @ - payout,
                                      !.balance[v] = @ + payout])
              ELSE Ok(s1)
         ELSE IF payout > stake
              THEN LET house_payout == payout - stake IN
                   IF ~(s1.house >= house_payout)
                   THEN Err("HouseInsufficient", s1)
                   ELSE Ok([s1 EXCEPT !.house = @ - house_payout,
                                      !.balance[v] = @ + house_payout])
         ELSE IF payout < stake
              THEN LET loss == stake - payout IN
                   IF ~(s1.balance[v] >= loss)
                   THEN Err("InsufficientFunds", s1)
                   ELSE Ok([s1 EXCEPT !.balance[v] = @ - loss,
                                      !.house = @ + loss])
         ELSE Ok(s1)

\* gem_len: gem_data.len()
bet_and_settle(s, cfg, t, caller, v, stake, payout, gem_len) ==
    IF ~pause_account(cfg) THEN Err("AccountNotInitialized", s)
    ELSE IF ~(gem_len = 7) THEN Err("InvalidAmount", s)
    ELSE IF pause_gate(cfg, t) # "Ok" THEN Err(pause_gate(cfg, t), s)
    ELSE IF ~(caller = ADMIN) THEN Err("Unauthorized", s)
    ELSE settle(s, v, stake, payout)

\* variant of batch_entry that pays a win only while the house keeps a
\* lamport
batch_entry_strict_house(s, v, stake, payout) ==
    IF ~(s.balance[v] >= stake) THEN Err("InsufficientFunds", s)
    ELSE IF stake > 0 /\ checked_add_overflows(s.total_volume, stake)
    THEN Err("Overflow", s)
    ELSE IF payout > stake /\ ~(s.house > payout - stake)
    THEN Err("HouseInsufficient", s)
    ELSE Ok([s EXCEPT !.balance[v] = (@ + payout) - stake,
                      !.house = (@ + stake) - payout,
                      !.total_volume = @ + stake])

\* variant of batch_entry in which the house pays a winner the whole payout
batch_entry_paying_full(s, v, stake, payout) ==
    IF ~(s.balance[v] >= stake) THEN Err("InsufficientFunds", s)
    ELSE IF stake > 0 /\ checked_add_overflows(s.total_volume, stake)
    THEN Err("Overflow", s)
    ELSE IF payout > stake /\ ~(s.house >= payout)
    THEN Err("HouseInsufficient", s)
    ELSE IF payout > stake
    THEN Ok([s EXCEPT !.house = @ - payout, !.balance[v] = @ + payout,
                      !.total_volume = @ + stake])
    ELSE Ok([s EXCEPT !.balance[v] = @ - (stake - payout),
                      !.house = @ + (stake - payout),
                      !.total_volume = @ + stake])

\* one iteration of the batch_settle loop: entry (stake, payout) on the
\* account passed at the same position of remaining_accounts
batch_entry(s, v, stake, payout) ==
    IF stake > 0 /\ ~(s.balance[v] >= stake) THEN Err("InsufficientFunds", s)
    ELSE IF stake > 0 /\ checked_add_overflows(s.total_volume, stake)
    THEN Err("Overflow", s)
    ELSE LET s1 == IF stake > 0
                   THEN [s EXCEPT !.total_volume = @ + stake]
                   ELSE s
         IN
         IF stake = 0
         THEN IF payout > 0
              THEN IF ~(s1.house >= payout) THEN Err("HouseInsufficient", s1)
                   ELSE Ok([s1 EXCEPT !.house = @ - payout,
                                      !.balance[v] = @ + payout])
              ELSE Ok(s1)
         ELSE IF payout > stake
              THEN LET profit == payout - stake IN
                   IF ~(s1.house >= profit) THEN Err("HouseInsufficient", s1)
                   ELSE Ok([s1 EXCEPT !.house = @ - profit,
                                      !.balance[v] = @ + profit])
         ELSE IF payout < stake
              THEN LET loss == stake - payout IN
                   IF ~(s1.balance[v] >= loss)
                   THEN Err("InsufficientFunds", s1)
                   ELSE Ok([s1 EXCEPT !.balance[v] = @ - loss,
                                      !.house = @ + loss])
         ELSE Ok(s1)

\* variant of batch_loop that passes over a failing entry
RECURSIVE batch_loop_skipping(_, _, _)
batch_loop_skipping(s, b, i) ==
    IF i > Len(b.stakes) THEN Ok(s)
    ELSE LET r == batch_entry(s, b.accounts[i], b.stakes[i], b.payouts[i]) IN
         batch_loop_skipping(IF r.err # "Ok" THEN s ELSE r.st, b, i + 1)

\* the loop over the zipped argument vectors, from entry i on; the first
\* failing entry ends the instruction with its error
RECURSIVE batch_loop(_, _, _)
batch_loop(s, b, i) ==
    IF i > Len(b.stakes) THEN Ok(s)
    ELSE LET r == batch_entry(s, b.accounts[i], b.stakes[i], b.payouts[i]) IN
         IF r.err # "Ok" THEN r ELSE batch_loop(r.st, b, i + 1)

\* maximum number of entries of one batch
MAX_BATCH == 10

\* variant of batch_settle without the limit on the number of entries
batch_settle_unbounded(s, cfg, t, caller, b) ==
    LET n == Len(b.stakes) IN
    IF ~pause_account(cfg) THEN Err("AccountNotInitialized", s)
    ELSE IF ~(n > 0) THEN Err("InvalidAmount", s)
    ELSE IF ~(n = Len(b.payouts)) THEN Err("InvalidAmount", s)
    ELSE IF ~(n = b.bet_ids) THEN Err("InvalidAmount", s)
    ELSE IF ~(n = b.game_ids) THEN Err("InvalidAmount", s)
    ELSE IF ~(n = Len(b.gem_datas)) THEN Err("InvalidAmount", s)
    ELSE IF \E i \in 1..Len(b.gem_datas) : ~(b.gem_datas[i] = 7)
    THEN Err("InvalidAmount", s)
    ELSE IF pause_gate(cfg, t) # "Ok" THEN Err(pause_gate(cfg, t), s)
    ELSE IF ~(caller = ADMIN) THEN Err("Unauthorized", s)
    ELSE IF ~(Len(b.accounts) = n) THEN Err("InvalidAmount", s)
    ELSE batch_loop(s, b, 1)

\* b: [stakes, payouts: sequences; bet_ids, game_ids: their lengths;
\*     gem_datas: the length of each gem_data; accounts: remaining_accounts]
batch_settle(s, cfg, t, caller, b) ==
    LET n == Len(b.stakes) IN
    IF ~pause_account(cfg) THEN Err("AccountNotInitialized", s)
    ELSE IF ~(n <= MAX_BATCH) THEN Err("BatchTooLarge", s)
    ELSE IF ~(n > 0) THEN Err("InvalidAmount", s)
    ELSE IF ~(n = Len(b.payouts)) THEN Err("InvalidAmount", s)
    ELSE IF ~(n = b.bet_ids) THEN Err("InvalidAmount", s)
    ELSE IF ~(n = b.game_ids) THEN Err("InvalidAmount", s)
    ELSE IF ~(n = Len(b.gem_datas)) THEN Err("InvalidAmount", s)
    ELSE IF \E i \in 1..Len(b.gem_datas) : ~(b.gem_datas[i] = 7)
    THEN Err("InvalidAmount", s)
    ELSE IF pause_gate(cfg, t) # "Ok" THEN Err(pause_gate(cfg, t), s)
    ELSE IF ~(caller = ADMIN) THEN Err("Unauthorized", s)
    ELSE IF ~(Len(b.accounts) = n) THEN Err("InvalidAmount", s)
    ELSE batch_loop(s, b, 1)

(* Pause / authority control.  A handler returns [err, cfg]. *)

ClosedPauseConfig ==
    [exists |-> FALSE,
     multisig_authority |-> MULTISIG,
     admin_authority |-> ADMIN,
     maintenance_pause |-> FALSE,
     maintenance_start_time |-> 0,
     maintenance_duration_hours |-> 0,
     emergency_pause |-> FALSE]

\* #[account(init, ...)]: fails when the account already exists
initialize_pause_config(cfg) ==
    IF cfg.exists THEN [err |-> "AccountAlreadyInUse", cfg |-> cfg]
    ELSE [err |-> "Ok",
          cfg |-> [exists |-> TRUE,
                   multisig_authority |-> MULTISIG,
                   admin_authority |-> ADMIN,
                   maintenance_pause |-> FALSE,
                   maintenance_start_time |-> 0,
                   maintenance_duration_hours |-> 4,
                   emergency_pause |-> FALSE]]

close_pause_config(cfg, caller) ==
    IF ~pause_account(cfg) THEN [err |-> "AccountNotInitialized", cfg |-> cfg]
    ELSE IF ~(caller = cfg.admin_authority \/ caller = cfg.multisig_authority)
    THEN [err |-> "Unauthorized", cfg |-> cfg]
    ELSE [err |-> "Ok", cfg |-> ClosedPauseConfig]

\* variant of start_maintenance_pause that leaves the start time as it was
start_maintenance_pause_untimed(cfg, t, caller) ==
    IF ~pause_account(cfg) THEN [err |-> "AccountNotInitialized", cfg |-> cfg]
    ELSE IF ~(caller = MULTISIG \/ caller = ADMIN)
    THEN [err |-> "Unauthorized", cfg |-> cfg]
    ELSE [err |-> "Ok", cfg |-> [cfg EXCEPT !.maintenance_pause = TRUE]]

start_maintenance_pause(cfg, t, caller) ==
    IF ~pause_account(cfg) THEN [err |-> "AccountNotInitialized", cfg |-> cfg]
    ELSE IF ~(caller = MULTISIG \/ caller = ADMIN)
    THEN [err |-> "Unauthorized", cfg |-> cfg]
    ELSE [err |-> "Ok",
          cfg |-> [cfg EXCEPT !.maintenance_pause = TRUE,
                              !.maintenance_start_time = t]]

\* variant of emergency_pause that leaves a maintenance pause in place
emergency_pause_keeping_maintenance(cfg, caller) ==
    IF ~pause_account(cfg) THEN [err |-> "AccountNotInitialized", cfg |-> cfg]
    ELSE IF ~(caller = MULTISIG) THEN [err |-> "Unauthorized", cfg |-> cfg]
    ELSE [err |-> "Ok", cfg |-> [cfg EXCEPT !.emergency_pause = TRUE]]

emergency_pause(cfg, caller) ==
    IF ~pause_account(cfg) THEN [err |-> "AccountNotInitialized", cfg |-> cfg]
    ELSE IF ~(caller = MULTISIG) THEN [err |-> "Unauthorized", cfg |-> cfg]
    ELSE [err |-> "Ok",
          cfg |-> [cfg EXCEPT !.emergency_pause = TRUE,
                              !.maintenance_pause = FALSE]]

\* variant of unpause that lifts the emergency pause only
unpause_emergency_only(cfg, caller) ==
    IF ~pause_account(cfg) THEN [err |-> "AccountNotInitialized", cfg |-> cfg]
    ELSE IF ~(caller = MULTISIG) THEN [err |-> "Unauthorized", cfg |-> cfg]
    ELSE [err |-> "Ok", cfg |-> [cfg EXCEPT !.emergency_pause = FALSE]]

unpause(cfg, caller) ==
    IF ~pause_account(cfg) THEN [err |-> "AccountNotInitialized", cfg |-> cfg]
    ELSE IF ~(caller = MULTISIG) THEN [err |-> "Unauthorized", cfg |-> cfg]
    ELSE [err |-> "Ok",
          cfg |-> [cfg EXCEPT !.emergency_pause = FALSE,
                              !.maintenance_pause = FALSE,
                              !.maintenance_start_time = 0]]

\* u8::saturating_sub
saturating_sub_u8(a, b) == IF a >= b THEN a - b ELSE 0

\* what get_pause_status logs: the EMERGENCY_PAUSE and MAINTENANCE_PAUSE
\* lines, and RESUME_TIME as "indefinite", a number of hours, or "now"
Status(emergency, maintenance, resume, hours) ==
    [emergency_pause |-> emergency, maintenance_pause |-> maintenance,
     resume_time |-> resume, hours |-> hours]

\* variant of get_pause_status that counts the elapsed hours without the
\* cast to u8
get_pause_status_uncast(cfg, t) ==
    IF ~pause_account(cfg)
    THEN [err |-> "AccountNotInitialized", cfg |-> cfg,
          status |-> Status(FALSE, FALSE, "none", 0)]
    ELSE IF cfg.emergency_pause
    THEN [err |-> "Ok", cfg |-> cfg,
          status |-> Status(TRUE, FALSE, "indefinite", 0)]
    ELSE IF cfg.maintenance_pause
    THEN LET elapsed_hours == (t - cfg.maintenance_start_time) \div 3600
             remaining_hours ==
                 saturating_sub_u8(cfg.maintenance_duration_hours, elapsed_hours)
         IN  IF remaining_hours > 0
             THEN [err |-> "Ok", cfg |-> cfg,
                   status |-> Status(FALSE, TRUE, "hours", remaining_hours)]
             ELSE [err |-> "Ok", cfg |-> cfg,
                   status |-> Status(FALSE, FALSE, "now", 0)]
    ELSE [err |-> "Ok", cfg |-> cfg, status |-> Status(FALSE, FALSE, "now", 0)]

\* get_pause_status reads the stored configuration and the clock and writes
\* the log only
get_pause_status(cfg, t) ==
    IF ~pause_account(cfg)
    THEN [err |-> "AccountNotInitialized", cfg |-> cfg,
          status |-> Status(FALSE, FALSE, "none", 0)]
    ELSE IF cfg.emergency_pause
    THEN [err |-> "Ok", cfg |-> cfg,
          status |-> Status(TRUE, FALSE, "indefinite", 0)]
    ELSE IF cfg.maintenance_pause
    THEN LET elapsed_hours == (t - cfg.maintenance_start_time) \div 3600
             remaining_hours ==
                 saturating_sub_u8(cfg.maintenance_duration_hours,
                                   AsU8(elapsed_hours))
         IN  IF remaining_hours > 0
             THEN [err |-> "Ok", cfg |-> cfg,
                   status |-> Status(FALSE, TRUE, "hours", remaining_hours)]
             ELSE [err |-> "Ok", cfg |-> cfg,
                   status |-> Status(FALSE, FALSE, "now", 0)]
    ELSE [err |-> "Ok", cfg |-> cfg, status |-> Status(FALSE, FALSE, "now", 0)]

\* signers tried on the pause instructions
Authorities == {MULTISIG, ADMIN, Stranger}

\* times at which the clock is observed, seconds: just below and at the
\* four-hour maintenance duration, and 256 hours
TimePoints == {0, 14399, 14400, 921600}

\* longest well-formed batch tried
MaxBatchLen == 2
\* total_volume only ever grows; bets are explored while it is below
\* MaxVolume, and within MaxAmount of u64::MAX
MaxVolume == 1

VolumeExplored(tv) == tv < MaxVolume \/ U64_MAX - tv <= MaxAmount

\* (stake, payout) of the batch entries tried: nothing, a pure payout, a
\* loss, a draw, a win
BatchOutcomes == {<<0, 0>>, <<0, 1>>, <<1, 0>>, <<1, 1>>, <<1, 2>>}
BatchEntries == {<<o[1], o[2], v>> : o \in BatchOutcomes, v \in Vaults}

RECURSIVE SeqsOf(_, _)
SeqsOf(S, n) ==
    IF n = 0 THEN {<<>>}
    ELSE {Append(q, x) : q \in SeqsOf(S, n - 1), x \in S}

Field(q, k) == [i \in 1..Len(q) |-> q[i][k]]

WellFormed(q) ==
    [stakes |-> Field(q, 1), payouts |-> Field(q, 2),
     bet_ids |-> Len(q), game_ids |-> Len(q),
     gem_datas |-> [i \in 1..Len(q) |-> 7],
     accounts |-> Field(q, 3)]

WellFormedBatches ==
    {WellFormed(q) : q \in UNION {SeqsOf(BatchEntries, n) : n \in 1..MaxBatchLen}}

PauseCall(op, r) ==
    /\ pause_config' = (IF r.err = "Ok" THEN r.cfg ELSE pause_config)
    /\ last' = [op |-> op, err |-> r.err]
    /\ event' = NoEvent
    /\ UNCHANGED <<program, ledger, house_authority, now, draw, wagered>>

Deposit ==
    \E v \in Vaults, amount \in Amounts, user_lamports \in Amounts :
        /\ program = "smart_vault_v2"
        /\ Total(Ledger) + amount <= MaxSupply
        /\ Call("deposit", deposit(WithWallet(Ledger, v, user_lamports),
                                   pause_config, now, v, amount))
        /\ UNCHANGED <<pause_config, now>>

Withdraw ==
    \E v \in Vaults, amount \in Amounts :
        /\ program = "smart_vault_v2"
        /\ Call("withdraw", withdraw(Ledger, pause_config, now, v, amount))
        /\ UNCHANGED <<pause_config, now>>

BetAndSettle ==
    \E caller \in Callers, v \in Vaults, stake \in Amounts, payout \in Amounts,
       gem_len \in {6, 7} :
        /\ program = "smart_vault_v2"
        /\ VolumeExplored(total_volume)
        /\ Call("bet_and_settle",
                bet_and_settle(Ledger, pause_config, now, caller, v, stake,
                               payout, gem_len))
        /\ UNCHANGED <<pause_config, now>>

\* a signer other than the admin tries the one-entry batches only
BatchSettle ==
    \E caller \in Callers, b \in WellFormedBatches :
        /\ program = "smart_vault_v2"
        /\ caller = ADMIN \/ Len(b.stakes) = 1
        /\ VolumeExplored(total_volume)
        /\ Call("batch_settle",
                batch_settle(Ledger, pause_config, now, caller, b))
        /\ UNCHANGED <<pause_config, now>>

InitializePauseConfig ==
    /\ program = "smart_vault_v2"
    /\ PauseCall("initialize_pause_config", initialize_pause_config(pause_config))

ClosePauseConfig ==
    \E caller \in Authorities :
        /\ program = "smart_vault_v2"
        /\ PauseCall("close_pause_config", close_pause_config(pause_config, caller))

StartMaintenancePause ==
    \E caller \in Authorities :
        /\ program = "smart_vault_v2"
        /\ PauseCall("start_maintenance_pause",
                     start_maintenance_pause(pause_config, now, caller))

EmergencyPause ==
    \E caller \in Authorities :
        /\ program = "smart_vault_v2"
        /\ PauseCall("emergency_pause", emergency_pause(pause_config, caller))

Unpause ==
    \E caller \in Authorities :
        /\ program = "smart_vault_v2"
        /\ PauseCall("unpause", unpause(pause_config, caller))

\* an absent Option<Pubkey> argument
None == "None"
\* keys offered as new authorities
NewKeys == {None, Stranger}

\* hv: the authority fields of HouseVault.  A handler returns [err, hv].
change_authority(hv, caller, new_multisig, new_admin) ==
    IF ~(caller = MULTISIG) THEN [err |-> "Unauthorized", hv |-> hv]
    ELSE LET hv1 == IF new_multisig # None
                    THEN [hv EXCEPT !.multisig_authority = new_multisig]
                    ELSE hv
         IN  [err |-> "Ok",
              hv |-> IF new_admin # None
                     THEN [hv1 EXCEPT !.admin_authority = new_admin]
                     ELSE hv1]

ChangeAuthority ==
    \E caller \in Authorities, new_multisig \in NewKeys, new_admin \in NewKeys :
        /\ program = "smart_vault_v2"
        /\ LET r == change_authority(house_authority, caller, new_multisig,
                                     new_admin)
           IN  /\ house_authority' =
                      (IF r.err = "Ok" THEN r.hv ELSE house_authority)
               /\ last' = [op |-> "change_authority", err |-> r.err]
        /\ event' = NoEvent
        /\ UNCHANGED <<program, ledger, pause_config, now, draw, wagered>>

\* unpause tried by signers other than the primary authority
UnpauseByOthers ==
    \E caller \in Authorities \ {MULTISIG} :
        /\ program = "smart_vault_v2"
        /\ PauseCall("unpause", unpause(pause_config, caller))

GetPauseStatus ==
    /\ program = "smart_vault_v2"
    /\ PauseCall("get_pause_status", get_pause_status(pause_config, now))

\* the clock advances
Tick ==
    \E t \in TimePoints :
        /\ program = "smart_vault_v2"
        /\ t > now
        /\ now' = t
        /\ UNCHANGED <<program, ledger, pause_config, house_authority, last,
                       event, draw, wagered>>

---------------------------------------------------------------------------
(* src/contract/airdrop.rs: smart_vault with gem rewards *)

\* wager mass that triggers one roll (100_000_000 lamports in the program,
\* scaled down to keep the amounts small)
threshold == 2
\* the roll cap of the reward loop
MAX_ROLLS == 100

GemType == <<"Garnet", "Amethyst", "Topaz", "Sapphire", "Emerald", "Ruby",
             "Diamond">>

\* the call-scoped seed (instruction bytes, slot, wager) and the keccak
\* digest of (seed, roll index) reduced modulo 1000: a deterministic
\* function of the seed and the roll index
Roll(seed, roll_count) == (seed.base + seed.step * roll_count) % 1000

base_award_prob == 300
effective_award_prob(multiplier) == (base_award_prob * multiplier) \div 100
min(a, b) == IF a <= b THEN a ELSE b
\* variant of nothing_prob that takes the base share whatever the multiplier
nothing_prob_unscaled(multiplier) == 1000 - min(base_award_prob, 1000)

nothing_prob(multiplier) == 1000 - min(effective_award_prob(multiplier), 1000)

sub_probs == <<150, 230, 270, 290, 297, 299, 300>>
award_roll(roll, multiplier) ==
    ((roll - nothing_prob(multiplier)) * 300) \div effective_award_prob(multiplier)

\* variant of gem_of that awards Ruby up to the last breakpoint
gem_of_skipping_ruby(a) ==
    IF a < sub_probs[1] THEN GemType[1]
    ELSE IF a < sub_probs[2] THEN GemType[2]
    ELSE IF a < sub_probs[3] THEN GemType[3]
    ELSE IF a < sub_probs[4] THEN GemType[4]
    ELSE IF a < sub_probs[5] THEN GemType[5]
    ELSE IF a < sub_probs[7] THEN GemType[6]
    ELSE GemType[7]

gem_of(a) ==
    IF a < sub_probs[1] THEN GemType[1]
    ELSE IF a < sub_probs[2] THEN GemType[2]
    ELSE IF a < sub_probs[3] THEN GemType[3]
    ELSE IF a < sub_probs[4] THEN GemType[4]
    ELSE IF a < sub_probs[5] THEN GemType[5]
    ELSE IF a < sub_probs[6] THEN GemType[6]
    ELSE GemType[7]

\* variant of cap_reached that stops the loop at half the cap
cap_reached_halfway(roll_count) == roll_count > MAX_ROLLS \div 2

\* the cap check at the end of an awarding iteration
cap_reached(roll_count) == roll_count > MAX_ROLLS

\* variant of loop_body that counts the awarding rolls only
loop_body_counting_awards(st, multiplier, seed) ==
    IF ~st.running \/ ~(st.accum >= threshold)
    THEN [st EXCEPT !.running = FALSE]
    ELSE LET accum1 == st.accum - threshold
             roll == Roll(seed, st.roll_count)
         IN
         IF roll < nothing_prob(multiplier)
         THEN [st EXCEPT !.accum = accum1]
         ELSE LET gem == gem_of(award_roll(roll, multiplier)) IN
              [accum |-> accum1, roll_count |-> st.roll_count + 1,
               gems |-> Append(st.gems, gem),
               running |-> ~cap_reached(st.roll_count + 1)]

\* one pass over the while loop: the loop condition, then the body; a loop
\* that has exited stays exited
loop_body(st, multiplier, seed) ==
    IF ~st.running \/ ~(st.accum >= threshold)
    THEN [st EXCEPT !.running = FALSE]
    ELSE LET accum1 == st.accum - threshold
             roll == Roll(seed, st.roll_count)
         IN
         IF roll < nothing_prob(multiplier)
         THEN [st EXCEPT !.accum = accum1, !.roll_count = @ + 1]
         ELSE LET gem == gem_of(award_roll(roll, multiplier)) IN
              [accum |-> accum1, roll_count |-> st.roll_count + 1,
               gems |-> Append(st.gems, gem),
               running |-> ~cap_reached(st.roll_count + 1)]

\* n passes over the loop, by halving n
RECURSIVE passes(_, _, _, _)
passes(st, n, multiplier, seed) ==
    IF n = 0 THEN st
    ELSE IF n = 1 THEN loop_body(st, multiplier, seed)
    ELSE LET half == passes(st, n \div 2, multiplier, seed) IN
         IF ~half.running THEN half
         ELSE passes(half, n - n \div 2, multiplier, seed)

\* the while loop run to its exit: every pass that does not exit takes one
\* threshold off accum, so accum \div threshold + 1 passes reach the exit
reward_loop(accum, multiplier, seed) ==
    passes([accum |-> accum, roll_count |-> 0, gems |-> <<>>,
            running |-> TRUE],
           accum \div threshold + 1, multiplier, seed)

\* a result carries, besides err and st, the loop's final roll_count and the
\* event emitted
Rewarded(s, rolls, ev) == [err |-> "Ok", st |-> s, rolls |-> rolls, event |-> ev]
Failed(e, s) == [err |-> e, st |-> s, rolls |-> 0, event |-> NoEvent]

gem_bet_and_settle(s, caller, v, stake, payout, multiplier, seed) ==
    IF ~authority_constraint(caller) THEN Failed("ConstraintAddress", s)
    ELSE IF ~(stake > 0) THEN Failed("InvalidAmount", s)
    ELSE IF ~(multiplier >= 50 /\ multiplier <= 300)
    THEN Failed("InvalidMultiplier", s)
    ELSE IF ~(caller = AUTHORITY_PUBKEY) THEN Failed("Unauthorized", s)
    ELSE IF ~(available(s, v) >= stake) THEN Failed("InsufficientFunds", s)
    ELSE IF checked_add_overflows(s.locked_amount[v], stake)
    THEN Failed("Overflow", s)
    ELSE LET s1 == [s EXCEPT !.balance[v] = @ - stake, !.house = @ + stake] IN
    IF payout > 0 /\ ~(s1.house >= payout) THEN Failed("HouseInsufficient", s1)
    ELSE LET s2 == IF payout > 0
                   THEN [s1 EXCEPT !.house = @ - payout,
                                   !.balance[v] = @ + payout]
                   ELSE s1
             effective_wager == stake
             loop == reward_loop(s2.accum_wager[v] + effective_wager,
                                 multiplier, seed)
             s3 == [s2 EXCEPT !.accum_wager[v] = loop.accum]
         IN
         Rewarded(s3, loop.roll_count,
                  IF loop.gems # <<>>
                  THEN [emitted |-> TRUE, gems |-> loop.gems,
                        num_rolls |-> loop.roll_count]
                  ELSE NoEvent)

\* stakes tried: below, at and above one threshold, and around the roll cap
GemStakes ==
    {1, threshold, MAX_ROLLS * threshold, (MAX_ROLLS + 1) * threshold,
     (MAX_ROLLS + 2) * threshold}
\* multipliers tried: the ends of the allowed range, 1x, and just outside
Multipliers == {49, 50, 100, 300, 301}
\* seeds tried: rolls that never award, always award, alternate, and award
\* only on the first roll
Seeds == {[base |-> 0, step |-> 0], [base |-> 999, step |-> 0],
          [base |-> 0, step |-> 999], [base |-> 999, step |-> 1]}
\* lamports a vault and the house hold when the rewards program starts
GemFunds == (MAX_ROLLS + 3) * threshold
\* cap on the wager carried over when a call ends at the roll cap
MaxCarry == 1
\* the vault that places reward bets; the other vault is a bystander
GemPlayers == {"v1"}

GemBetAndSettle ==
    \E caller \in Callers, v \in GemPlayers, stake \in GemStakes,
       win \in BOOLEAN, multiplier \in Multipliers, seed \in Seeds :
        /\ program = "airdrop"
        /\ accum_wager[v] < MaxCarry * threshold
        /\ win \/ house = GemFunds
        /\ LET r == gem_bet_and_settle(Ledger, caller, v, stake,
                                       IF win THEN stake ELSE 0,
                                       multiplier, seed)
           IN  /\ Commit(r)
               /\ last' = [op |-> "bet_and_settle", err |-> r.err]
               /\ event' = r.event
        /\ UNCHANGED <<program, pause_config, house_authority, now, draw,
                       wagered>>

\* the multipliers bet_and_settle accepts
MultiplierRange == 50..300
\* the values of roll: the digest reduced modulo 1000
RollValues == 0..999

\* the call entropy under which the first roll of the call is roll
SeedOf(roll) == [base |-> roll, step |-> 0]

\* a losing reward bet of exactly one threshold on a vault that carries no
\* wager: the loop makes one roll
one_roll_bet(s, multiplier, roll) ==
    gem_bet_and_settle(s, AUTHORITY_PUBKEY, "v1", threshold, 0, multiplier,
                       SeedOf(roll))

\* bet_and_settle with the multiplier drawn at the start, its one roll
\* taking any of the thousand values
RewardRoll ==
    \E roll \in RollValues :
        /\ program = "airdrop"
        /\ ~draw.rolled
        /\ LET r == one_roll_bet(Ledger, draw.multiplier, roll)
           IN  /\ Commit(r)
               /\ last' = [op |-> "bet_and_settle", err |-> r.err]
               /\ event' = r.event
        /\ draw' = [draw EXCEPT !.rolled = TRUE, !.roll = roll]
        /\ UNCHANGED <<program, pause_config, house_authority, now, wagered>>

\* number of reward bets followed in a row
MaxCalls == 3
\* stakes of those bets: below and at one threshold, and past the roll cap
WagerStakes == {1, threshold, (MAX_ROLLS + 2) * threshold}

\* bet_and_settle by the authority, the stakes and the rolls of the
\* successful calls summed up; what a call leaves in accum_wager is carried
\* into the next
WagerBet ==
    \E v \in GemPlayers, stake \in WagerStakes, win \in BOOLEAN,
       multiplier \in Multipliers, seed \in Seeds :
        /\ program = "airdrop"
        /\ wagered.calls < MaxCalls
        /\ LET r == gem_bet_and_settle(Ledger, AUTHORITY_PUBKEY, v, stake,
                                       IF win THEN stake ELSE 0,
                                       multiplier, seed)
           IN  /\ Commit(r)
               /\ last' = [op |-> "bet_and_settle", err |-> r.err]
               /\ event' = r.event
               /\ wagered' =
                      IF r.err = "Ok"
                      THEN [stakes |-> wagered.stakes + stake,
                            rolls |-> wagered.rolls + r.rolls,
                            calls |-> wagered.calls + 1]
                      ELSE wagered
        /\ UNCHANGED <<program, pause_config, house_authority, now, draw>>

---------------------------------------------------------------------------
(* src/contract/batch-settle.rs: smart_vault with the signed-profit batch *)

\* the 64-bit integers of this program are followed at a width of Width
\* bits, at which every i64 value can be tried
Width == 4
\* the number of u64 values, and the ends of the i64 range
W64 == 2 ^ Width
I64_MIN == -(W64 \div 2)
I64_MAX == (W64 \div 2) - 1
\* x as u64
AsU64(x) == x % W64

\* one iteration of the batch_settle loop on vault v with profit delta.
\* overflow_checks: whether the build traps integer overflow (a panic ends
\* the instruction) or lets it wrap; the sources do not fix the profile
signed_entry(s, overflow_checks, v, delta) ==
    IF delta < 0
    THEN IF overflow_checks /\ delta = I64_MIN THEN Err("Panic", s)
         ELSE LET lamports == AsU64(-delta) IN
              IF overflow_checks /\ s.balance[v] < lamports
              THEN Err("Panic", s)
              ELSE IF overflow_checks /\ s.house + lamports >= W64
              THEN Err("Panic", s)
              ELSE Ok([s EXCEPT !.balance[v] = AsU64(@ - lamports),
                                !.house = AsU64(@ + lamports)])
    ELSE IF delta > 0
    THEN LET lamports == AsU64(delta) IN
         IF ~(s.house >= lamports) THEN Err("HouseInsufficient", s)
         ELSE IF overflow_checks /\ s.balance[v] + lamports >= W64
         THEN Err("Panic", s)
         ELSE Ok([s EXCEPT !.house = AsU64(@ - lamports),
                           !.balance[v] = AsU64(@ + lamports)])
    ELSE Ok(s)

\* the loop over users, from entry i on: the i-th remaining account must be
\* the vault of users[i]
RECURSIVE signed_loop(_, _, _, _)
signed_loop(s, overflow_checks, b, i) ==
    IF i > Len(b.users) THEN Ok(s)
    ELSE IF ~(b.accounts[i] = b.users[i]) THEN Err("Unauthorized", s)
    ELSE LET r == signed_entry(s, overflow_checks, b.users[i], b.profits[i])
         IN  IF r.err # "Ok" THEN r
             ELSE signed_loop(r.st, overflow_checks, b, i + 1)

\* batch_settle(users, profits) with remaining_accounts b.accounts.  The
\* host refuses an instruction that changes the sum of the lamports of its
\* accounts.
batch_settle_signed(s, overflow_checks, caller, b) ==
    IF ~authority_constraint(caller) THEN Err("ConstraintAddress", s)
    ELSE IF ~(Len(b.users) = Len(b.profits)) THEN Err("InvalidAmount", s)
    ELSE IF ~(Len(b.accounts) = Len(b.users)) THEN Err("InvalidAmount", s)
    ELSE LET r == signed_loop(s, overflow_checks, b, 1) IN
         IF r.err = "Ok" /\ Total(r.st) # Total(s)
         THEN Err("UnbalancedInstruction", r.st)
         ELSE r

\* profits tried: every i64 value
Profits == I64_MIN..I64_MAX
SignedEntries == {<<v, delta>> : v \in Vaults, delta \in Profits}

SignedBatch(q) ==
    [users |-> Field(q, 1), profits |-> Field(q, 2), accounts |-> Field(q, 1)]

\* batches of one entry and of two, each vault account matching its user
SignedBatches ==
    {SignedBatch(q) :
        q \in UNION {SeqsOf(SignedEntries, n) : n \in 1..MaxBatchLen}}

\* batches the checks before and in the loop refuse: a profit missing, an
\* account missing, the account of another user
MalformedSignedBatches ==
    {[users |-> <<"v1">>, profits |-> <<>>, accounts |-> <<"v1">>],
     [users |-> <<"v1">>, profits |-> <<1>>, accounts |-> <<>>],
     [users |-> <<"v1">>, profits |-> <<1>>, accounts |-> <<"v2">>]}

BsDeposit ==
    \E v \in Vaults, amount \in Amounts, user_lamports \in Amounts :
        /\ program = "smart_vault_batch"
        /\ Total(Ledger) + amount <= MaxSupply
        /\ Call("deposit", sv_deposit(WithWallet(Ledger, v, user_lamports), v, amount))
        /\ UNCHANGED <<pause_config, now>>

BsWithdraw ==
    \E v \in Vaults, amount \in Amounts :
        /\ program = "smart_vault_batch"
        /\ Call("withdraw", sv_withdraw(Ledger, v, amount))
        /\ UNCHANGED <<pause_config, now>>

BsBatchSettle ==
    \E caller \in Callers, overflow_checks \in BOOLEAN,
       b \in SignedBatches \cup MalformedSignedBatches :
        /\ program = "smart_vault_batch"
        /\ Call("batch_settle",
                batch_settle_signed(Ledger, overflow_checks, caller, b))
        /\ UNCHANGED <<pause_config, now>>

---------------------------------------------------------------------------
(* Initial state: vaults, house and pause configuration initialised *)

InitPauseConfig ==
    [exists |-> TRUE,
     multisig_authority |-> MULTISIG,
     admin_authority |-> ADMIN,
     maintenance_pause |-> FALSE,
     maintenance_start_time |-> 0,
     maintenance_duration_hours |-> 4,
     emergency_pause |-> FALSE]

\* no reward bet has been made
NoWager == [stakes |-> 0, rolls |-> 0, calls |-> 0]

\* no one-roll reward bet is under study
NoDraw == [multiplier |-> 0, rolled |-> FALSE, roll |-> 0]

\* initialize_house
InitHouseAuthority ==
    [multisig_authority |-> MULTISIG, admin_authority |-> ADMIN]

InitLedger ==
    /\ balance = [v \in Vaults |-> 0]
    /\ house = InitHouse
    /\ locked_amount = [v \in Vaults |-> 0]
    /\ active_games = [v \in Vaults |-> 0]
    /\ accum_wager = [v \in Vaults |-> 0]
    /\ total_volume = 0
    /\ pause_config = InitPauseConfig
    /\ house_authority = InitHouseAuthority
    /\ draw = NoDraw
    /\ wagered = NoWager
    /\ now = 0
    /\ last = NoCall
    /\ event = NoEvent

InitV1 == program = "smart_vault" /\ InitLedger

\* the house pool has settled no volume yet, or nearly u64::MAX of it
InitV2 ==
    /\ program = "smart_vault_v2"
    /\ balance = [v \in Vaults |-> 0]
    /\ house = InitHouse
    /\ locked_amount = [v \in Vaults |-> 0]
    /\ active_games = [v \in Vaults |-> 0]
    /\ accum_wager = [v \in Vaults |-> 0]
    /\ total_volume \in {0, U64_MAX - 1}
    /\ pause_config = InitPauseConfig
    /\ house_authority = InitHouseAuthority
    /\ draw = NoDraw
    /\ wagered = NoWager
    /\ now = 0
    /\ last = NoCall
    /\ event = NoEvent

InitGems ==
    /\ program = "airdrop"
    /\ balance = [v \in Vaults |-> GemFunds]
    /\ house = GemFunds
    /\ locked_amount = [v \in Vaults |-> 0]
    /\ active_games = [v \in Vaults |-> 0]
    /\ accum_wager = [v \in Vaults |-> 0]
    /\ total_volume = 0
    /\ pause_config = InitPauseConfig
    /\ house_authority = InitHouseAuthority
    /\ draw = NoDraw
    /\ wagered = NoWager
    /\ now = 0
    /\ last = NoCall
    /\ event = NoEvent

\* smart_vault of src/contract/lib.rs
NextV1 ==
    \/ SvDeposit
    \/ SvWithdraw
    \/ PlaceBet
    \/ SettleGame
    \/ CreditWin
    \/ DebitLoss

SpecV1 == InitV1 /\ [][NextV1]_vars

\* smart_vault_v2 of src/contract/src/lib.rs
NextV2 ==
    \/ Deposit
    \/ Withdraw
    \/ BetAndSettle
    \/ BatchSettle
    \/ InitializePauseConfig
    \/ ClosePauseConfig
    \/ StartMaintenancePause
    \/ EmergencyPause
    \/ Unpause
    \/ Tick

SpecV2 == InitV2 /\ [][NextV2]_vars

\* smart_vault of src/contract/airdrop.rs
NextGems ==
    \/ GemBetAndSettle

SpecGems == InitGems /\ [][NextGems]_vars

\* the reward roll alone: one bet of one threshold for every multiplier in
\* range and every roll value
InitRolls ==
    /\ program = "airdrop"
    /\ balance = [v \in Vaults |-> GemFunds]
    /\ house = GemFunds
    /\ locked_amount = [v \in Vaults |-> 0]
    /\ active_games = [v \in Vaults |-> 0]
    /\ accum_wager = [v \in Vaults |-> 0]
    /\ total_volume = 0
    /\ pause_config = InitPauseConfig
    /\ house_authority = InitHouseAuthority
    /\ draw \in [multiplier : MultiplierRange, rolled : {FALSE}, roll : {0}]
    /\ wagered = NoWager
    /\ now = 0
    /\ last = NoCall
    /\ event = NoEvent

NextRolls ==
    \/ RewardRoll

SpecRolls == InitRolls /\ [][NextRolls]_vars

\* smart_vault of src/contract/batch-settle.rs
InitBatch == program = "smart_vault_batch" /\ InitLedger

NextBatch ==
    \/ BsDeposit
    \/ BsWithdraw
    \/ BsBatchSettle

SpecBatch == InitBatch /\ [][NextBatch]_vars

\* reward bets in a row on one vault, from accum_wager = 0
NextWagers ==
    \/ WagerBet

SpecWagers == InitGems /\ [][NextWagers]_vars

\* administration of smart_vault_v2: the pause and authority instructions
\* beside deposit and withdraw.  change_authority writes the authority fields
\* of HouseVault, which no instruction reads.
NextAdmin ==
    \/ Deposit
    \/ Withdraw
    \/ InitializePauseConfig
    \/ ClosePauseConfig
    \/ StartMaintenancePause
    \/ EmergencyPause
    \/ Unpause
    \/ ChangeAuthority
    \/ GetPauseStatus
    \/ Tick

SpecAdmin == InitV2 /\ [][NextAdmin]_vars

\* the same without any unpause by the primary authority
NextNoUnpause ==
    \/ Deposit
    \/ Withdraw
    \/ InitializePauseConfig
    \/ ClosePauseConfig
    \/ StartMaintenancePause
    \/ EmergencyPause
    \/ UnpauseByOthers
    \/ ChangeAuthority
    \/ Tick

SpecNoUnpause == InitV2 /\ [][NextNoUnpause]_vars

\* any one of the three programs
Init == InitV1 \/ InitV2 \/ InitGems

Next ==
    \/ NextV1
    \/ NextV2
    \/ NextGems

Spec == Init /\ [][Next]_vars

---------------------------------------------------------------------------
(* Properties *)

\* signers and amounts a call is tried with
Signers == {AUTHORITY_PUBKEY, MULTISIG, ADMIN, Stranger}
TryAmounts == 0..(MaxAmount + 1)

\* result r, of a call made on ledger s, changes the lamports of vaults plus
\* house by d
Moves(s, r, d) == Total(Committed(s, r)) = Total(s) + d
Gain(r, amount) == IF r.err = "Ok" THEN amount ELSE 0

SettlementOps ==
    {"place_bet", "settle_game", "bet_and_settle", "batch_settle",
     "credit_win", "debit_loss"}

\* a deposit or withdrawal of a, tried on the current ledger with w lamports
\* in the owner's wallet, moves exactly a between wallet and vault when it
\* succeeds and nothing when it fails
ExternalExact(dep, wd, v, a, w) ==
    LET s == WithWallet(Ledger, v, w) IN
    /\ Moves(s, dep, Gain(dep, a))
    /\ Committed(s, dep).wallet[v] = w - Gain(dep, a)
    /\ Moves(s, wd, 0 - Gain(wd, a))
    /\ Committed(s, wd).wallet[v] = w + Gain(wd, a)

C1_External ==
    \A v \in Vaults, a \in TryAmounts, w \in TryAmounts :
        LET s == WithWallet(Ledger, v, w) IN
        /\ program = "smart_vault" =>
               ExternalExact(sv_deposit(s, v, a), sv_withdraw(s, v, a), v, a, w)
        /\ program = "smart_vault_v2" =>
               ExternalExact(deposit(s, pause_config, now, v, a),
                             withdraw(s, pause_config, now, v, a), v, a, w)

C1_Settlement ==
    last'.op \in SettlementOps => Total(Ledger)' = Total(Ledger)

C2_LockWithinBalance ==
    \A v \in Vaults : 0 <= locked_amount[v] /\ locked_amount[v] <= balance[v]

\* C9: place_bet by the settlement authority with stake > 0 succeeds if and
\* only if balance minus locked_amount is at least stake; on success
\* locked_amount grows by stake, active_games by 1, the vault balance drops by
\* stake and the house balance grows by stake; otherwise it fails with
\* InsufficientFunds and changes nothing.
C9_PlaceBet ==
    \A v \in Vaults, stake \in TryAmounts \ {0} :
        LET r == place_bet(Ledger, AUTHORITY_PUBKEY, v, stake) IN
        IF balance[v] - locked_amount[v] >= stake
        THEN /\ r.err = "Ok"
             /\ Committed(Ledger, r) =
                    [Ledger EXCEPT !.locked_amount[v] = @ + stake,
                                   !.active_games[v] = @ + 1,
                                   !.balance[v] = @ - stake,
                                   !.house = @ + stake]
        ELSE /\ r.err = "InsufficientFunds"
             /\ Committed(Ledger, r) = Ledger

\* a bet of the whole available balance has been placed, and a second bet of
\* one lamport is refused
C9_Witness ==
    /\ last = [op |-> "place_bet", err |-> "Ok"]
    /\ \E v \in Vaults :
        /\ active_games[v] = 1
        /\ locked_amount[v] = MaxAmount
        /\ place_bet(Ledger, AUTHORITY_PUBKEY, v, 1).err = "InsufficientFunds"

\* settle_game on the current ledger by the settlement authority
Settled(v, stake, payout) ==
    settle_game(Ledger, AUTHORITY_PUBKEY, v, stake, payout)
\* the effect C10 describes
SettleEffect(v, stake, payout) ==
    [Ledger EXCEPT !.locked_amount[v] = @ - stake,
                   !.active_games[v] = @ - 1,
                   !.house = @ - payout,
                   !.balance[v] = @ + payout]

\* C10 as stated: settle_game by the settlement authority fails with
\* NoActiveGame when active_games = 0 and with SettlementMismatch when
\* locked_amount < stake; otherwise it subtracts stake from locked_amount,
\* decrements active_games and moves exactly payout from house to vault.
C10_AsStated ==
    \A v \in Vaults, stake \in TryAmounts, payout \in TryAmounts :
        LET r == Settled(v, stake, payout) IN
        IF active_games[v] = 0 THEN r.err = "NoActiveGame"
        ELSE IF locked_amount[v] < stake THEN r.err = "SettlementMismatch"
        ELSE r.err = "Ok" /\ r.st = SettleEffect(v, stake, payout)

\* C10: settle_game by the settlement authority fails with InvalidAmount when
\* stake = 0; with stake > 0 it fails with NoActiveGame when active_games = 0,
\* else with SettlementMismatch when locked_amount < stake, else with
\* HouseInsufficient when payout exceeds the house balance, each time changing
\* nothing; otherwise it subtracts stake from locked_amount, decrements
\* active_games and moves exactly payout from house to vault (nothing when
\* payout = 0).
C10_SettleGame ==
    \A v \in Vaults, stake \in TryAmounts, payout \in TryAmounts :
        LET r == Settled(v, stake, payout) IN
        /\ r.err # "Ok" => Committed(Ledger, r) = Ledger
        /\ IF stake = 0 THEN r.err = "InvalidAmount"
           ELSE IF active_games[v] = 0 THEN r.err = "NoActiveGame"
           ELSE IF locked_amount[v] < stake THEN r.err = "SettlementMismatch"
           ELSE IF payout > house THEN r.err = "HouseInsufficient"
           ELSE r.err = "Ok" /\ r.st = SettleEffect(v, stake, payout)

\* a game has been settled with a payout, and with the house unable to pay a
\* larger one
C10_Witness ==
    /\ last = [op |-> "settle_game", err |-> "Ok"]
    /\ \E v \in Vaults :
        /\ balance[v] > 0
        /\ active_games[v] > 0
        /\ locked_amount[v] > 0
        /\ Settled(v, 1, house + 1).err = "HouseInsufficient"

\* entry (stake, payout) on vault v fails one of the checks of the batch
\* loop at ledger s
EntryFails(s, v, stake, payout) ==
    \/ stake > 0 /\ s.balance[v] < stake
    \/ stake > 0 /\ s.total_volume + stake > U64_MAX
    \/ payout < stake /\ s.balance[v] < stake - payout
    \/ payout > stake /\ s.house < payout - stake

\* the first k entries of batch b
Prefix(b, k) ==
    [stakes |-> SubSeq(b.stakes, 1, k), payouts |-> SubSeq(b.payouts, 1, k),
     bet_ids |-> k, game_ids |-> k,
     gem_datas |-> SubSeq(b.gem_datas, 1, k),
     accounts |-> SubSeq(b.accounts, 1, k)]

\* entry k of b fails its checks on the ledger its predecessors leave
FailsAt(b, k) ==
    LET pre == batch_loop(Ledger, Prefix(b, k - 1), 1) IN
    /\ pre.err = "Ok"
    /\ EntryFails(pre.st, b.accounts[k], b.stakes[k], b.payouts[k])

\* C3: if any entry of a batch_settle call fails a check (vault balance below
\* stake or loss, house balance below the amount to pay, volume overflow), the
\* call fails and balances, house balance and total_volume are as before the
\* call, also for the entries before the failing one.
C3_BatchAtomic ==
    \A b \in WellFormedBatches :
        LET r == batch_settle(Ledger, pause_config, now, ADMIN, b) IN
        (\E k \in 1..Len(b.stakes) : FailsAt(b, k)) =>
            /\ r.err \in {"InsufficientFunds", "HouseInsufficient", "Overflow",
                          "EmergencyPaused", "MaintenancePaused",
                          "AccountNotInitialized"}
            /\ Committed(Ledger, r) = Ledger

\* a batch has been refused whose first entry passes its checks and moves
\* lamports and whose second entry fails
C3_Witness ==
    /\ last.op = "batch_settle"
    /\ last.err \in {"InsufficientFunds", "HouseInsufficient"}
    /\ \E b \in WellFormedBatches :
        /\ Len(b.stakes) = 2
        /\ batch_settle(Ledger, pause_config, now, ADMIN, b).err = last.err
        /\ batch_loop(Ledger, Prefix(b, 1), 1).err = "Ok"
        /\ batch_loop(Ledger, Prefix(b, 1), 1).st.balance # balance
        /\ FailsAt(b, 2)

\* batches tried beside the well-formed ones: no entry, more than MAX_BATCH
\* entries, a payout missing, a gem_data of six bytes
OneEntry == WellFormed(<<<<1, 1, "v1">>>>)
MalformedBatches ==
    {WellFormed(<<>>),
     WellFormed([i \in 1..(MAX_BATCH + 1) |-> <<0, 0, "v1">>]),
     [OneEntry EXCEPT !.payouts = <<>>],
     [OneEntry EXCEPT !.bet_ids = 2],
     [OneEntry EXCEPT !.game_ids = 0],
     [OneEntry EXCEPT !.gem_datas = <<>>],
     [OneEntry EXCEPT !.gem_datas = <<6>>]}
GateBatches ==
    MalformedBatches \cup
    {OneEntry, [OneEntry EXCEPT !.accounts = <<>>],
     WellFormed(<<<<0, 1, "v2">>, <<1, 0, "v1">>>>)}

\* the argument checks that come before the pause gate
ValidBatch(b) ==
    /\ Len(b.stakes) \in 1..MAX_BATCH
    /\ Len(b.payouts) = Len(b.stakes)
    /\ b.bet_ids = Len(b.stakes)
    /\ b.game_ids = Len(b.stakes)
    /\ Len(b.gem_datas) = Len(b.stakes)
    /\ \A i \in 1..Len(b.gem_datas) : b.gem_datas[i] = 7

\* the results of the settlement calls tried by caller on the current state,
\* each with whether its arguments pass the checks before the gate
SettlementsBy(caller) ==
    {[r |-> bet_and_settle(Ledger, pause_config, now, caller, v, a, p, g),
      valid |-> g = 7] :
        v \in Vaults, a \in TryAmounts, p \in {0, 1}, g \in {6, 7}}
    \cup
    {[r |-> batch_settle(Ledger, pause_config, now, caller, b),
      valid |-> ValidBatch(b)] : b \in GateBatches}

GatedSettlements == UNION {SettlementsBy(caller) : caller \in Signers}

GatedTransfers ==
    {[r |-> deposit(WithWallet(Ledger, v, w), pause_config, now, v, a),
      valid |-> a > 0, wallet |-> w, v |-> v] :
        v \in Vaults, a \in TryAmounts, w \in {0, MaxAmount}}
    \cup
    {[r |-> withdraw(Ledger, pause_config, now, v, a), valid |-> a > 0,
      wallet |-> 0, v |-> v] : v \in Vaults, a \in TryAmounts}

GatedCalls == GatedSettlements \cup GatedTransfers

\* C4 as stated: whenever emergency_pause is true, every deposit, withdraw,
\* bet_and_settle and batch_settle fails with the emergency-pause error.
C4_AsStated ==
    pause_config.emergency_pause =>
        \A c \in GatedCalls : c.r.err = "EmergencyPaused"

\* C4: whenever emergency_pause is true, every deposit, withdraw,
\* bet_and_settle and batch_settle fails and changes no state, whatever
\* maintenance_pause and the time elapsed: with the emergency-pause error when
\* its arguments pass the checks made before the gate (amount > 0; gem data of
\* seven bytes; a batch of 1..10 entries with lists of equal length), with
\* InvalidAmount or BatchTooLarge when they do not.
C4_EmergencyPrecedence ==
    pause_config.emergency_pause =>
        /\ \A c \in GatedCalls :
               IF c.valid THEN c.r.err = "EmergencyPaused"
               ELSE c.r.err \in {"InvalidAmount", "BatchTooLarge"}
        /\ \A c \in GatedSettlements : Committed(Ledger, c.r) = Ledger
        /\ \A c \in GatedTransfers :
               LET s == WithWallet(Ledger, c.v, c.wallet) IN
               Committed(s, c.r) = s

\* a deposit has been refused for the emergency pause while a maintenance
\* pause, started under it, has lapsed
C4_Witness ==
    /\ pause_config.emergency_pause
    /\ pause_config.maintenance_pause
    /\ now - pause_config.maintenance_start_time >= 14400
    /\ last = [op |-> "deposit", err |-> "EmergencyPaused"]

\* the maintenance pause is set and its hours have not elapsed
MaintenanceRunning ==
    /\ pause_config.maintenance_pause
    /\ (now - pause_config.maintenance_start_time) \div 3600 <
           pause_config.maintenance_duration_hours

GateNotClear == pause_config.emergency_pause \/ MaintenanceRunning

OutsiderCalls ==
    UNION {{place_bet(Ledger, caller, v, a), credit_win(Ledger, caller, v, a),
            debit_loss(Ledger, caller, v, a),
            settle_game(Ledger, caller, v, a, 0),
            settle_game(Ledger, caller, v, a, 1)} :
           caller \in Signers \ {AUTHORITY_PUBKEY}, v \in Vaults,
           a \in TryAmounts}

OutsiderGemCalls ==
    {gem_bet_and_settle(Ledger, caller, v, stake, 0, multiplier,
                        [base |-> 999, step |-> 0]) :
        caller \in Signers \ {AUTHORITY_PUBKEY}, v \in Vaults,
        stake \in {0, 1, threshold}, multiplier \in Multipliers}

OutsiderSettlements ==
    UNION {SettlementsBy(caller) : caller \in Signers \ {ADMIN}}

\* C6 as stated: every settlement call by a caller other than the settlement
\* authority fails with Unauthorized.
C6_AsStated ==
    /\ program = "smart_vault" =>
           \A r \in OutsiderCalls : r.err = "Unauthorized"
    /\ program = "airdrop" =>
           \A r \in OutsiderGemCalls : r.err = "Unauthorized"
    /\ program = "smart_vault_v2" =>
           \A c \in OutsiderSettlements : c.r.err = "Unauthorized"

\* C6: every settlement call by a caller other than the settlement authority
\* fails and leaves balances, locked_amount, active_games, accum_wager and
\* total_volume unchanged.  place_bet, settle_game, credit_win, debit_loss and
\* the reward bet_and_settle are refused by the constraint on the authority
\* account, with ConstraintAddress; bet_and_settle and batch_settle of
\* smart_vault_v2 fail with Unauthorized when the pause configuration exists,
\* the arguments pass the checks made before the gate and the gate is clear,
\* and else with the error of the first of these that does not hold.
C6_OutsiderRefused ==
    /\ program = "smart_vault" =>
           \A r \in OutsiderCalls :
               r.err = "ConstraintAddress" /\ Committed(Ledger, r) = Ledger
    /\ program = "airdrop" =>
           \A r \in OutsiderGemCalls :
               r.err = "ConstraintAddress" /\ Committed(Ledger, r) = Ledger
    /\ program = "smart_vault_v2" =>
           \A c \in OutsiderSettlements :
               /\ Committed(Ledger, c.r) = Ledger
               /\ IF ~pause_config.exists
                  THEN c.r.err = "AccountNotInitialized"
                  ELSE IF ~c.valid
                  THEN c.r.err \in {"InvalidAmount", "BatchTooLarge"}
                  ELSE IF pause_config.emergency_pause
                  THEN c.r.err = "EmergencyPaused"
                  ELSE IF pause_gate(pause_config, now) # "Ok"
                  THEN c.r.err = "MaintenancePaused"
                  ELSE c.r.err = "Unauthorized"

\* a batch signed by another key than the admin's has been refused as
\* unauthorized on a funded vault
C6_Witness ==
    /\ program = "smart_vault_v2"
    /\ last = [op |-> "batch_settle", err |-> "Unauthorized"]
    /\ balance["v1"] > 0

Ceil(a, b) == (a + b - 1) \div b

\* the results of the reward bets the settlement authority tries on the
\* current state, each with the wager mass the loop starts from
GemCalls ==
    {[r |-> gem_bet_and_settle(Ledger, AUTHORITY_PUBKEY, v, stake, payout,
                               multiplier, seed),
      v |-> v, mass |-> accum_wager[v] + stake] :
        v \in GemPlayers, stake \in GemStakes, payout \in {0, 1},
        multiplier \in Multipliers, seed \in Seeds}

\* C7: the reward loop of one bet_and_settle call runs at most
\* min(ceil(accum_wager / threshold), 100) iterations, accum_wager being the
\* value after the stake has been added; no call performs more than 100 rolls.
C7_LoopBound ==
    \A c \in GemCalls :
        c.r.err = "Ok" =>
            c.r.rolls <= min(Ceil(c.mass, threshold), MAX_ROLLS)

\* C8 as stated: after every successful reward bet_and_settle the vault's
\* accum_wager is below the threshold.
C8_AsStated ==
    \A c \in GemCalls :
        c.r.err = "Ok" => c.r.st.accum_wager[c.v] < threshold

\* C8: after every successful reward bet_and_settle the vault's accum_wager is
\* below the threshold, unless the loop of that call stopped at its cap check
\* (an awarding roll that brought the roll count above 100), when gems are
\* awarded and what is left carries over to the next call.
C8_BelowThreshold ==
    \A c \in GemCalls :
        c.r.err = "Ok" =>
            \/ c.r.st.accum_wager[c.v] < threshold
            \/ c.r.rolls > MAX_ROLLS /\ c.r.event.emitted

\* a reward bet has run its loop below the cap, awarded gems and left less
\* than one threshold
C8_Witness ==
    /\ last = [op |-> "bet_and_settle", err |-> "Ok"]
    /\ event.emitted
    /\ event.num_rolls \in 1..MAX_ROLLS
    /\ \E v \in GemPlayers : accum_wager[v] = 1 /\ accum_wager[v] < threshold

\* bet_and_settle tried on the current state by the admin with gem data of
\* seven bytes
Bet(v, stake, payout) ==
    bet_and_settle(Ledger, pause_config, now, ADMIN, v, stake, payout, 7)

\* C11: a successful bet_and_settle(stake, payout) changes the vault balance
\* by exactly payout - stake and the house balance by exactly stake - payout,
\* for every stake >= 0 and payout >= 0 (with stake = 0 the whole payout goes
\* from house to vault); total_volume grows by exactly stake; nothing else
\* changes.
C11_NetEffect ==
    \A v \in Vaults, stake \in TryAmounts, payout \in TryAmounts :
        LET r == Bet(v, stake, payout) IN
        r.err = "Ok" =>
            r.st = [Ledger EXCEPT !.balance[v] = (@ + payout) - stake,
                                  !.house = (@ + stake) - payout,
                                  !.total_volume = @ + stake]

\* a pure payout (stake 0) has emptied the house into a vault, and a bet
\* lost by that vault would count its stake into the volume
C11_Witness ==
    /\ last = [op |-> "bet_and_settle", err |-> "Ok"]
    /\ house = 0
    /\ total_volume = 0
    /\ \E v \in Vaults :
        /\ balance[v] = InitHouse
        /\ Bet(v, 1, 0).err = "Ok"
        /\ Bet(v, 1, 0).st.total_volume = 1

\* a reward bet tried on the current state by the settlement authority at
\* multiplier 1x, with rolls that award nothing
GemBet(v, stake, payout) ==
    gem_bet_and_settle(Ledger, AUTHORITY_PUBKEY, v, stake, payout, 100,
                       [base |-> 0, step |-> 0])

\* winning (stake, payout) pairs tried on vault v: in smart_vault_v2 every
\* pair of small amounts, in the rewards program stakes up to one lamport
\* more than the vault holds and payouts up to one lamport more than the
\* house can cover
Wins == {w \in TryAmounts \X (1..(MaxAmount + 2)) : w[2] > w[1]}
GemWins(v) ==
    UNION {{<<stake, stake + 1>>, <<stake, house + stake>>,
            <<stake, house + stake + 1>>} :
           stake \in {0, 1, threshold, balance[v] + 1}}

\* the system is not paused
GateClear == pause_account(pause_config) /\ pause_gate(pause_config, now) = "Ok"

\* C12 as stated: bet_and_settle with payout > stake succeeds when the house
\* balance is at least payout - stake and fails with HouseInsufficient when it
\* is smaller.
C12_AsStated ==
    /\ program = "smart_vault_v2" /\ GateClear =>
           \A v \in Vaults, w \in Wins :
               Bet(v, w[1], w[2]).err =
                   IF house >= w[2] - w[1] THEN "Ok" ELSE "HouseInsufficient"
    /\ program = "airdrop" =>
           \A v \in Vaults : \A w \in GemWins(v) :
               GemBet(v, w[1], w[2]).err =
                   IF house >= w[2] - w[1] THEN "Ok" ELSE "HouseInsufficient"

\* C12: bet_and_settle(stake, payout) with payout > stake, by the settlement
\* authority on an unpaused system, fails with InsufficientFunds when the
\* vault does not hold the stake (in the rewards program: with InvalidAmount
\* when stake = 0, with InsufficientFunds when balance minus locked_amount is
\* below the stake) and with Overflow when the stake overflows total_volume
\* (locked_amount in the rewards program); otherwise it succeeds when the house
\* balance is at least payout - stake and fails with HouseInsufficient when
\* it is smaller.  On every failure the vault balance, the house balance and
\* total_volume are as before the call.
C12_HouseCover ==
    /\ program = "smart_vault_v2" /\ GateClear =>
           \A v \in Vaults, w \in Wins :
               LET r == Bet(v, w[1], w[2]) IN
               /\ r.err # "Ok" => Committed(Ledger, r) = Ledger
               /\ r.err =
                      IF w[1] > 0 /\ balance[v] < w[1] THEN "InsufficientFunds"
                      ELSE IF w[1] > 0 /\ total_volume + w[1] > U64_MAX
                      THEN "Overflow"
                      ELSE IF house >= w[2] - w[1] THEN "Ok"
                      ELSE "HouseInsufficient"
    /\ program = "airdrop" =>
           \A v \in Vaults : \A w \in GemWins(v) :
               LET r == GemBet(v, w[1], w[2]) IN
               /\ r.err # "Ok" => Committed(Ledger, r) = Ledger
               /\ r.err =
                      IF w[1] = 0 THEN "InvalidAmount"
                      ELSE IF balance[v] - locked_amount[v] < w[1]
                      THEN "InsufficientFunds"
                      ELSE IF locked_amount[v] + w[1] > U64_MAX THEN "Overflow"
                      ELSE IF house >= w[2] - w[1] THEN "Ok"
                      ELSE "HouseInsufficient"

\* a win has been refused for want of house funds while the vault holds the
\* stake, and a smaller win of the same stake would be paid
C12_Witness ==
    /\ program = "smart_vault_v2"
    /\ last = [op |-> "bet_and_settle", err |-> "HouseInsufficient"]
    /\ house = 1
    /\ \E v \in Vaults :
        /\ balance[v] >= 1
        /\ Bet(v, 1, 3).err = "HouseInsufficient"
        /\ Bet(v, 1, 2).err = "Ok"

\* the errors C13 names for a refused withdrawal
WithdrawErrors ==
    {"InvalidAmount", "EmergencyPaused", "MaintenancePaused",
     "GamesInProgress", "InsufficientFunds"}

\* the conditions C13 gives for a withdrawal of a from vault v; the first
\* program has no pause
MayWithdraw(v, a) ==
    /\ a > 0
    /\ program = "smart_vault_v2" => ~GateNotClear
    /\ active_games[v] = 0
    /\ balance[v] >= a

\* the results of the withdrawals tried on the current state, the owner's
\* wallet holding w
Withdrawals ==
    {[v |-> v, a |-> a, w |-> w,
      r |-> IF program = "smart_vault"
            THEN sv_withdraw(WithWallet(Ledger, v, w), v, a)
            ELSE withdraw(WithWallet(Ledger, v, w), pause_config, now, v, a)] :
        v \in Vaults, a \in TryAmounts, w \in {0, MaxAmount}}

\* a successful withdrawal meets the conditions and moves exactly a from the
\* vault to the owner's wallet; a failing one changes nothing
WithdrawExact(c) ==
    LET s == WithWallet(Ledger, c.v, c.w) IN
    /\ c.r.err = "Ok" =>
           /\ MayWithdraw(c.v, c.a)
           /\ c.r.st = [s EXCEPT !.balance[c.v] = @ - c.a,
                                 !.wallet[c.v] = @ + c.a]
    /\ c.r.err # "Ok" => Committed(s, c.r) = s

\* C13 as stated: withdraw(amount) succeeds only when amount > 0, the system
\* is not paused, active_games = 0 and balance >= amount, and then moves
\* exactly amount from the vault to its owner; in every other case it fails
\* with InvalidAmount, a pause error, GamesInProgress or InsufficientFunds and
\* no balance changes.
C13_AsStated ==
    program \in {"smart_vault", "smart_vault_v2"} =>
        \A c \in Withdrawals :
            /\ WithdrawExact(c)
            /\ ~MayWithdraw(c.v, c.a) => c.r.err \in WithdrawErrors

\* C13: withdraw(amount) succeeds only when amount > 0, the system is not
\* paused, active_games = 0 and balance >= amount, and then moves exactly
\* amount from the vault to its owner; in every other case it fails and no
\* balance changes: with AccountNotInitialized whenever the pause
\* configuration account has been closed, and else with InvalidAmount, a
\* pause error, GamesInProgress or InsufficientFunds.
C13_Withdraw ==
    program \in {"smart_vault", "smart_vault_v2"} =>
        \A c \in Withdrawals :
            /\ WithdrawExact(c)
            /\ IF program = "smart_vault_v2" /\ ~pause_account(pause_config)
               THEN c.r.err = "AccountNotInitialized"
               ELSE /\ c.r.err # "AccountNotInitialized"
                    /\ ~MayWithdraw(c.v, c.a) => c.r.err \in WithdrawErrors

\* part of a vault has been withdrawn: the rest can follow, one lamport more
\* cannot
C13_Witness ==
    /\ program = "smart_vault_v2"
    /\ last = [op |-> "withdraw", err |-> "Ok"]
    /\ \E v \in Vaults :
        /\ balance[v] = 1
        /\ withdraw(Ledger, pause_config, now, v, 1).err = "Ok"
        /\ withdraw(Ledger, pause_config, now, v, 2).err = "InsufficientFunds"

\* C14: the locked amount is excluded from the withdrawable balance: in
\* every reachable state no withdraw(amount) succeeds with amount greater
\* than vault balance minus locked_amount.
C14_LockedNotWithdrawable ==
    program = "smart_vault" =>
        \A v \in Vaults, a \in TryAmounts :
            sv_withdraw(Ledger, v, a).err = "Ok" =>
                a <= balance[v] - locked_amount[v]

\* the stored pause configuration is in state Active
Active ==
    /\ pause_account(pause_config)
    /\ ~pause_config.emergency_pause
    /\ ~pause_config.maintenance_pause

\* deposit of a into vault v from a wallet holding w, then withdraw of a
RoundTrip(v, a, w) ==
    LET s == WithWallet(Ledger, v, w)
        d == deposit(s, pause_config, now, v, a)
    IN  [d |-> d,
         w |-> withdraw(Committed(s, d), pause_config, now, v, a)]

\* C15: for every amount > 0 the owner holds, on an unpaused system (pause
\* configuration in state Active) and a vault with active_games = 0,
\* deposit(amount) followed by withdraw(amount) both succeed and leave the
\* vault balance, locked_amount, active_games and the house balance (and the
\* owner's wallet and every other vault) as they were before the deposit.
C15_RoundTrip ==
    program = "smart_vault_v2" /\ Active =>
        \A v \in Vaults, a \in TryAmounts \ {0}, extra \in {0, 1} :
            active_games[v] = 0 =>
                LET rt == RoundTrip(v, a, a + extra) IN
                /\ rt.d.err = "Ok"
                /\ rt.d.st.balance[v] = balance[v] + a
                /\ rt.w.err = "Ok"
                /\ rt.w.st = WithWallet(Ledger, v, a + extra)

\* a vault has been filled and emptied again on an unpaused system, and the
\* ledger is the one the program started with
C15_Witness ==
    /\ program = "smart_vault_v2"
    /\ Active
    /\ last = [op |-> "withdraw", err |-> "Ok"]
    /\ balance = [v \in Vaults |-> 0]
    /\ house = InitHouse
    /\ total_volume = 0
    /\ RoundTrip("v1", MaxAmount, MaxAmount).w.err = "Ok"

\* the entries of batch b from entry i on, each settled by a bet_and_settle
\* call of its own on the ledger its predecessor leaves; the first failing
\* call ends the sequence with its error
RECURSIVE single_calls(_, _, _, _)
single_calls(s, caller, b, i) ==
    IF i > Len(b.stakes) THEN Ok(s)
    ELSE LET r == bet_and_settle(s, pause_config, now, caller, b.accounts[i],
                                 b.stakes[i], b.payouts[i], b.gem_datas[i])
         IN  IF r.err # "Ok" THEN r ELSE single_calls(r.st, caller, b, i + 1)

\* C16: batch_settle on a well-formed batch of entries (stake_i, payout_i)
\* with vault references v_i succeeds exactly when bet_and_settle(stake_i,
\* payout_i) applied to v_i one after another in list order would all
\* succeed, and then yields the same vault balances, house balance and
\* total_volume as that sequence; entry i is applied to the i-th vault
\* reference, also when one vault is referenced by several entries.
C16_BatchAsSingles ==
    program = "smart_vault_v2" =>
        \A b \in WellFormedBatches, caller \in {ADMIN, Stranger} :
            LET r == batch_settle(Ledger, pause_config, now, caller, b)
                q == single_calls(Ledger, caller, b, 1)
            IN  /\ (r.err = "Ok") <=> (q.err = "Ok")
                /\ r.err = "Ok" => r.st = q.st

\* a batch has been settled, and a batch of two entries on one vault, the
\* second of which can only be paid from what the first brings in, would be
\* settled as its two single calls are
C16_Witness ==
    /\ last = [op |-> "batch_settle", err |-> "Ok"]
    /\ house = 0
    /\ \E v \in Vaults :
        LET b == WellFormed(<<<<1, 0, v>>, <<0, 1, v>>>>) IN
        /\ batch_settle(Ledger, pause_config, now, ADMIN, b).err = "Ok"
        /\ single_calls(Ledger, ADMIN, b, 1).err = "Ok"
        /\ single_calls(Ledger, ADMIN, b, 1).st.total_volume = total_volume + 1

\* two entries on distinct vaults, and the results of the admin's batch of
\* them in either order
DistinctPairs == {p \in BatchEntries \X BatchEntries : p[1][3] # p[2][3]}
InOrder(p) ==
    batch_settle(Ledger, pause_config, now, ADMIN, WellFormed(<<p[1], p[2]>>))
Swapped(p) ==
    batch_settle(Ledger, pause_config, now, ADMIN, WellFormed(<<p[2], p[1]>>))

\* what the house has to pay on entry e, and whether the vault of e holds
\* the stake before the batch
HouseDue(e) == IF e[2] > e[1] THEN e[2] - e[1] ELSE 0
VaultCovers(e) == balance[e[3]] >= e[1]

\* C17 as stated: for a batch over pairwise distinct vaults every permutation
\* of the entries gives the same success-or-failure outcome of batch_settle
\* and, on success, the same final balances.
C17_AsStated ==
    program = "smart_vault_v2" =>
        \A p \in DistinctPairs :
            LET a == InOrder(p)
                b == Swapped(p)
            IN  /\ (a.err = "Ok") <=> (b.err = "Ok")
                /\ a.err = "Ok" => a.st = b.st

\* C17: for a batch over pairwise distinct vaults the vault-side check of an
\* entry does not depend on the other entries (an entry whose vault holds
\* less than its stake fails the batch in every order), but the house-side
\* check does: entries draw on the shared house balance in list order.
\* Every permutation gives the same success-or-failure outcome when the house
\* balance before the call covers the sum of what the batch makes the house
\* pay, and two permutations that both succeed give the same final balances.
C17_Permutations ==
    program = "smart_vault_v2" =>
        \A p \in DistinctPairs :
            LET a == InOrder(p)
                b == Swapped(p)
            IN  /\ ~VaultCovers(p[1]) \/ ~VaultCovers(p[2]) =>
                       a.err # "Ok" /\ b.err # "Ok"
                /\ house >= HouseDue(p[1]) + HouseDue(p[2]) =>
                       ((a.err = "Ok") <=> (b.err = "Ok"))
                /\ a.err = "Ok" /\ b.err = "Ok" => a.st = b.st

\* a batch that pays a winner before it collects a loss has been refused for
\* want of house funds, and the same entries in the other order are settled
C17_Witness ==
    /\ last = [op |-> "batch_settle", err |-> "HouseInsufficient"]
    /\ house = 0
    /\ \E p \in DistinctPairs :
        /\ p[1] = <<0, 1, "v2">>
        /\ p[2] = <<1, 0, "v1">>
        /\ InOrder(p).err = "HouseInsufficient"
        /\ Swapped(p).err = "Ok"

\* a batch of n draws of nothing on one vault
Idle(n) == WellFormed([i \in 1..n |-> <<0, 0, "v1">>])

\* batches tried for their shape: the malformed ones, batches with too few
\* and too many vault references, an oversized batch with a payout missing,
\* and well-formed batches of one, two and MAX_BATCH entries
ShapeBatches ==
    GateBatches \cup
    {[OneEntry EXCEPT !.accounts = <<"v1", "v2">>],
     [Idle(MAX_BATCH + 1) EXCEPT !.payouts = <<>>],
     Idle(MAX_BATCH)}

\* the argument lists of b have one length, and the supplied vault references
\* too
ListsAgree(b) ==
    /\ Len(b.payouts) = Len(b.stakes)
    /\ b.bet_ids = Len(b.stakes)
    /\ b.game_ids = Len(b.stakes)
    /\ Len(b.gem_datas) = Len(b.stakes)
AccountsAgree(b) == Len(b.accounts) = Len(b.stakes)

\* C18 as stated, for the admin and with the pause configuration in place:
\* batch_settle rejects a batch of more than 10 entries with BatchTooLarge,
\* and with InvalidAmount an empty batch and a batch whose stakes, payouts,
\* metadata lists or supplied vault references differ in length; every
\* accepted batch has between 1 and 10 entries.
C18_AsStated ==
    program = "smart_vault_v2" /\ pause_account(pause_config) =>
        \A b \in ShapeBatches :
            LET r == batch_settle(Ledger, pause_config, now, ADMIN, b)
                n == Len(b.stakes)
            IN  /\ r.err # "Ok" => Committed(Ledger, r) = Ledger
                /\ n > 10 => r.err = "BatchTooLarge"
                /\ n = 0 => r.err = "InvalidAmount"
                /\ n \in 1..10 /\ ~(ListsAgree(b) /\ AccountsAgree(b)) =>
                       r.err = "InvalidAmount"
                /\ r.err = "Ok" => n \in 1..10

\* C18: batch_settle rejects without any state change a batch of more than
\* 10 entries (BatchTooLarge), an empty batch and a batch whose stakes,
\* payouts and metadata lists differ in length or whose gem data is not of
\* seven bytes (InvalidAmount), for every caller and in every pause state; a
\* batch whose lists agree but whose number of supplied vault references
\* differs is rejected with the pause error when the pause gate is closed,
\* else with Unauthorized when the caller is not the admin, and only else
\* with InvalidAmount; once the pause configuration account is closed every
\* batch is rejected with AccountNotInitialized.  Every accepted batch has
\* between 1 and 10 entries and as many vault references.
C18_BatchShape ==
    program = "smart_vault_v2" =>
        \A caller \in Signers, b \in ShapeBatches :
            LET r == batch_settle(Ledger, pause_config, now, caller, b)
                n == Len(b.stakes)
                gate == pause_gate(pause_config, now)
            IN  /\ r.err # "Ok" => Committed(Ledger, r) = Ledger
                /\ r.err = "Ok" =>
                       n \in 1..10 /\ ListsAgree(b) /\ AccountsAgree(b)
                /\ IF ~pause_account(pause_config)
                   THEN r.err = "AccountNotInitialized"
                   ELSE IF n > 10 THEN r.err = "BatchTooLarge"
                   ELSE IF n = 0 \/ ~ValidBatch(b) THEN r.err = "InvalidAmount"
                   ELSE IF ~AccountsAgree(b)
                   THEN r.err = IF gate # "Ok" THEN gate
                                ELSE IF caller # ADMIN THEN "Unauthorized"
                                ELSE "InvalidAmount"
                   ELSE TRUE

\* during a maintenance pause, after a batch has been refused for it, an
\* oversized batch is refused for its size, a batch of ten entries and one
\* with a vault reference missing are refused for the pause
C18_Witness ==
    /\ last = [op |-> "batch_settle", err |-> "MaintenancePaused"]
    /\ batch_settle(Ledger, pause_config, now, ADMIN, Idle(11)).err =
           "BatchTooLarge"
    /\ batch_settle(Ledger, pause_config, now, ADMIN, Idle(10)).err =
           "MaintenancePaused"
    /\ batch_settle(Ledger, pause_config, now, ADMIN,
                    [OneEntry EXCEPT !.accounts = <<>>]).err =
           "MaintenancePaused"

\* C19: on the pause configuration, start_maintenance_pause succeeds only
\* for the primary or the secondary authority; it sets maintenance_pause to
\* true and records the current time as maintenance_start_time, changing
\* nothing else; any other caller gets Unauthorized and the pause
\* configuration is unchanged.
C19_StartMaintenance ==
    program = "smart_vault_v2" /\ pause_account(pause_config) =>
        \A caller \in Signers :
            LET r == start_maintenance_pause(pause_config, now, caller) IN
            IF caller \in {pause_config.multisig_authority,
                           pause_config.admin_authority}
            THEN /\ r.err = "Ok"
                 /\ r.cfg = [pause_config EXCEPT
                                 !.maintenance_pause = TRUE,
                                 !.maintenance_start_time = now]
            ELSE /\ r.err = "Unauthorized"
                 /\ r.cfg = pause_config

\* a maintenance pause has been started after the clock has advanced, the
\* start time recorded is the current time, and a stranger's attempt would
\* be refused
C19_Witness ==
    /\ last = [op |-> "start_maintenance_pause", err |-> "Ok"]
    /\ now > 0
    /\ pause_config.maintenance_pause
    /\ pause_config.maintenance_start_time = now
    /\ start_maintenance_pause(pause_config, now, Stranger).err = "Unauthorized"

\* C20: on the pause configuration, emergency_pause succeeds only for the
\* primary authority; the secondary authority and all others get
\* Unauthorized, with no change; on success emergency_pause becomes true and
\* maintenance_pause false, nothing else changing, from the Active and from
\* the MaintenancePaused state alike.
C20_EmergencyPause ==
    program = "smart_vault_v2" /\ pause_account(pause_config) =>
        \A caller \in Signers :
            LET r == emergency_pause(pause_config, caller) IN
            IF caller = pause_config.multisig_authority
            THEN /\ r.err = "Ok"
                 /\ r.cfg = [pause_config EXCEPT
                                 !.emergency_pause = TRUE,
                                 !.maintenance_pause = FALSE]
            ELSE /\ r.err = "Unauthorized"
                 /\ r.cfg = pause_config

\* an emergency pause has replaced a maintenance pause that was started after
\* the clock had advanced, and the secondary authority's attempt would be
\* refused
C20_Witness ==
    /\ last = [op |-> "emergency_pause", err |-> "Ok"]
    /\ pause_config.emergency_pause
    /\ ~pause_config.maintenance_pause
    /\ pause_config.maintenance_start_time > 0
    /\ emergency_pause(pause_config, ADMIN).err = "Unauthorized"

\* C21: on the pause configuration, unpause succeeds only for the primary
\* authority; all others get Unauthorized, with no change; on success
\* emergency_pause and maintenance_pause are both false and
\* maintenance_start_time is 0, nothing else changing, so that the pause gate
\* of the next gated operation is open.
C21_Unpause ==
    program = "smart_vault_v2" /\ pause_account(pause_config) =>
        \A caller \in Signers :
            LET r == unpause(pause_config, caller) IN
            IF caller = pause_config.multisig_authority
            THEN /\ r.err = "Ok"
                 /\ r.cfg = [pause_config EXCEPT
                                 !.emergency_pause = FALSE,
                                 !.maintenance_pause = FALSE,
                                 !.maintenance_start_time = 0]
                 /\ \A t \in TimePoints : pause_gate(r.cfg, t) = "Ok"
            ELSE /\ r.err = "Unauthorized"
                 /\ r.cfg = pause_config

\* the primary authority has lifted the pauses after the clock has advanced,
\* a deposit passes the gate, and the secondary authority's unpause would be
\* refused
C21_Witness ==
    /\ last = [op |-> "unpause", err |-> "Ok"]
    /\ now > 0
    /\ ~pause_config.emergency_pause
    /\ ~pause_config.maintenance_pause
    /\ pause_config.maintenance_start_time = 0
    /\ deposit(WithWallet(Ledger, "v1", 1), pause_config, now, "v1", 1).err = "Ok"
    /\ unpause(pause_config, ADMIN).err = "Unauthorized"

\* longest sequence of pause instructions followed from an emergency pause
MaxOps == 2

\* the configuration an instruction that returned r leaves behind, from cfg
Stored(cfg, r) == IF r.err = "Ok" THEN r.cfg ELSE cfg

\* the configurations one instruction other than an unpause by the primary
\* authority can leave behind, from cfg at time t; deposit, withdraw, the
\* settlements and change_authority write no configuration
AfterOp(cfg, t) ==
    {Stored(cfg, start_maintenance_pause(cfg, t, caller)) : caller \in Authorities}
    \cup {Stored(cfg, emergency_pause(cfg, caller)) : caller \in Authorities}
    \cup {Stored(cfg, close_pause_config(cfg, caller)) : caller \in Authorities}
    \cup {Stored(cfg, initialize_pause_config(cfg))}
    \cup {Stored(cfg, unpause(cfg, caller)) : caller \in Authorities \ {MULTISIG}}

\* ... and those that up to n such instructions, at any later times, leave
RECURSIVE AfterOps(_, _)
AfterOps(cfg, n) ==
    IF n = 0 THEN {cfg}
    ELSE LET before == AfterOps(cfg, n - 1) IN
         before \cup UNION {AfterOp(c, t) : c \in before,
                                             t \in {u \in TimePoints : u >= now}}

\* some gated operation succeeds under configuration cfg at time t
SomeGatedCallSucceeds(cfg, t) ==
    \/ \E v \in Vaults, a \in TryAmounts :
           \/ deposit(WithWallet(Ledger, v, MaxAmount), cfg, t, v, a).err = "Ok"
           \/ withdraw(Ledger, cfg, t, v, a).err = "Ok"
    \/ \E v \in Vaults, stake \in Amounts, payout \in Amounts :
           bet_and_settle(Ledger, cfg, t, ADMIN, v, stake, payout, 7).err = "Ok"
    \/ \E b \in WellFormedBatches :
           Len(b.stakes) = 1 /\ batch_settle(Ledger, cfg, t, ADMIN, b).err = "Ok"

\* C22: once the system is EmergencyPaused, no sequence of operations
\* (start_maintenance_pause, close_pause_config, initialize_pause_config,
\* change_authority, the passage of time, ...) without a successful unpause
\* by the primary authority reaches a state in which a gated operation
\* succeeds.
C22_EmergencyHolds ==
    (program = "smart_vault_v2" /\ pause_config.emergency_pause) =>
        \A cfg \in AfterOps(pause_config, MaxOps) :
            \A t \in TimePoints : t >= now => ~SomeGatedCallSucceeds(cfg, t)

\* C23: with emergency_pause false and maintenance_pause true, a gated
\* operation (deposit, withdraw, bet_and_settle, batch_settle) whose
\* arguments are in order is rejected with MaintenancePaused if and only if
\* the time elapsed since maintenance_start_time is less than the configured
\* duration in hours; for every elapsed time at or beyond the duration,
\* however large, the gate lets the call proceed.
C23_MaintenanceWindow ==
    /\ program = "smart_vault_v2"
    /\ pause_account(pause_config)
    /\ ~pause_config.emergency_pause
    /\ pause_config.maintenance_pause
    => \A c \in GatedCalls :
           c.valid =>
               ((c.r.err = "MaintenancePaused") <=>
                    (now - pause_config.maintenance_start_time <
                         pause_config.maintenance_duration_hours * 3600))

\* the instructions that run the pause gate
GatedOps == {"deposit", "withdraw", "bet_and_settle", "batch_settle"}

\* C24: after a gated operation has run at a time when
\* now - maintenance_start_time >= maintenance_duration, the stored
\* PauseConfig has maintenance_pause = false and the maintenance timer reset.
C24_AutoClearStored ==
    /\ program = "smart_vault_v2"
    /\ pause_account(pause_config)
    /\ last.op \in GatedOps
    /\ last.err = "Ok"
    /\ now - pause_config.maintenance_start_time >=
           pause_config.maintenance_duration_hours * 3600
    => /\ ~pause_config.maintenance_pause
       /\ pause_config.maintenance_start_time = 0

\* C25: change_authority is gated by the primary authority as currently
\* stored: the stored primary authority, and nobody else, passes the
\* primary-only gates (change_authority, emergency_pause, unpause), also
\* after a change_authority that stored a new primary; an argument left
\* absent leaves that identity unchanged.
C25_StoredPrimaryGates ==
    program = "smart_vault_v2" =>
        \A caller \in Signers :
            LET primary == house_authority.multisig_authority
                gate_passes(err) == (err = "Ok") <=> (caller = primary)
            IN  /\ gate_passes(change_authority(house_authority, caller, None,
                                           None).err)
                /\ pause_account(pause_config) =>
                       /\ gate_passes(emergency_pause(pause_config, caller).err)
                       /\ gate_passes(unpause(pause_config, caller).err)
                /\ change_authority(house_authority, MULTISIG, None, None).hv =
                       house_authority

\* the ledger s after amount lamports went from the house to vault v
HouseToVault(s, v, amount) ==
    [s EXCEPT !.house = @ - amount, !.balance[v] = @ + amount]

\* the ledger s after amount lamports went from vault v to the house
VaultToHouse(s, v, amount) ==
    [s EXCEPT !.balance[v] = @ - amount, !.house = @ + amount]

C27_AsStated ==
    program = "smart_vault_v2" /\ GateClear =>
        \A v \in Vaults, stake \in Amounts, payout \in Amounts :
            total_volume + stake > U64_MAX =>
                /\ Bet(v, stake, payout).err = "Overflow"
                /\ Committed(Ledger, Bet(v, stake, payout)) = Ledger

\* entry k of b is the first whose stake would push total_volume past
\* u64::MAX, its predecessors having succeeded
OverflowsAt(b, k) ==
    LET pre == batch_loop(Ledger, Prefix(b, k - 1), 1) IN
    /\ pre.err = "Ok"
    /\ b.stakes[k] > 0
    /\ pre.st.total_volume + b.stakes[k] > U64_MAX

\* ... and the vault of entry k covers that stake
CoveredAt(b, k) ==
    batch_loop(Ledger, Prefix(b, k - 1), 1).st.balance[b.accounts[k]] >= b.stakes[k]

C27_NoWrap ==
    program = "smart_vault_v2" =>
        /\ total_volume \in 0..U64_MAX
        /\ \A caller \in Signers, v \in Vaults, stake \in Amounts,
              payout \in Amounts :
               LET r == bet_and_settle(Ledger, pause_config, now, caller, v,
                                       stake, payout, 7)
               IN  total_volume + stake > U64_MAX =>
                       /\ r.err # "Ok"
                       /\ Committed(Ledger, r) = Ledger
                       /\ (GateClear /\ caller = ADMIN /\ balance[v] >= stake)
                              => r.err = "Overflow"
        /\ \A b \in WellFormedBatches :
               LET r == batch_settle(Ledger, pause_config, now, ADMIN, b) IN
               \A k \in 1..Len(b.stakes) :
                   OverflowsAt(b, k) =>
                       /\ r.err # "Ok"
                       /\ Committed(Ledger, r) = Ledger
                       /\ (GateClear /\ CoveredAt(b, k)) => r.err = "Overflow"

C27_Monotone == total_volume' >= total_volume

\* C27: total_volume never decreases over any sequence of operations and
\* never wraps: it stays within the u64 range, and a bet_and_settle or
\* batch_settle whose stake would push it past u64::MAX fails and leaves
\* total_volume and all balances unchanged; the error is Overflow when the
\* call passes the checks made before the volume update (pause
\* configuration, arguments, pause gate, authority, vault balance at least
\* the stake), and the error of the first failing check otherwise.
C27_VolumeMonotone == []C27_NoWrap /\ [][C27_Monotone]_vars

\* the volume stands at u64::MAX after a bet that took it there, and a
\* further bet that its vault covers is refused with Overflow
C27_Witness ==
    /\ program = "smart_vault_v2"
    /\ total_volume = U64_MAX
    /\ last = [op |-> "bet_and_settle", err |-> "Ok"]
    /\ \E v \in Vaults : balance[v] >= 1 /\ Bet(v, 1, 1).err = "Overflow"

\* the roll values on which a one-roll bet with the given multiplier awards a
\* gem
RewardingRolls(multiplier) ==
    {roll \in RollValues : one_roll_bet(Ledger, multiplier, roll).event.emitted}

\* C28: for every multiplier in 50..300, a roll value in [0, 1000) produces
\* no reward exactly when it is below 1000 - min(1000, 300*multiplier/100);
\* hence exactly min(1000, 3*multiplier) of the 1000 roll values produce a
\* reward, and the number of rewarding roll values never decreases as the
\* multiplier grows.
C28_AwardWindow ==
    program = "airdrop" /\ draw.multiplier \in MultiplierRange =>
        LET multiplier == draw.multiplier IN
        IF draw.rolled
        THEN /\ last.err = "Ok"
             /\ ~event.emitted <=>
                    draw.roll < 1000 - min(1000, (300 * multiplier) \div 100)
        ELSE LET n == Cardinality(RewardingRolls(multiplier)) IN
             /\ n = min(1000, 3 * multiplier)
             /\ multiplier + 1 \in MultiplierRange =>
                    Cardinality(RewardingRolls(multiplier + 1)) >= n

\* bets at the ends of the multiplier range have rolled the last value that
\* awards nothing and the first that awards: here the first, at 3x
C28_Witness ==
    /\ draw.rolled /\ draw.multiplier = 300 /\ draw.roll = 100
    /\ last = [op |-> "bet_and_settle", err |-> "Ok"]
    /\ event.emitted
    /\ ~one_roll_bet(Ledger, 300, 99).event.emitted
    /\ one_roll_bet(Ledger, 50, 850).event.emitted
    /\ ~one_roll_bet(Ledger, 50, 849).event.emitted

\* the seven tiers in order, and their cumulative breakpoints
Tiers == <<"Garnet", "Amethyst", "Topaz", "Sapphire", "Emerald", "Ruby",
           "Diamond">>
Breakpoints == <<150, 230, 270, 290, 297, 299, 300>>

\* the rescaled award value of a rewarding roll
Rescaled(roll, multiplier) ==
    ((roll - (1000 - min(1000, (300 * multiplier) \div 100))) * 300)
        \div ((300 * multiplier) \div 100)

\* C29: for every multiplier in 50..300 and every rewarding roll value, the
\* rescaled award value lies in [0, 300) and the awarded tier is the first of
\* the seven tiers (Garnet, Amethyst, Topaz, Sapphire, Emerald, Ruby, Diamond)
\* whose cumulative breakpoint in [150, 230, 270, 290, 297, 299, 300] is
\* strictly greater than the rescaled value.
C29_TierOfRoll ==
    (program = "airdrop" /\ draw.rolled /\ event.emitted) =>
        LET a == Rescaled(draw.roll, draw.multiplier) IN
        /\ a = award_roll(draw.roll, draw.multiplier)
        /\ a >= 0 /\ a < 300
        /\ \E k \in 1..7 :
               /\ Breakpoints[k] > a
               /\ \A j \in 1..(k - 1) : ~(Breakpoints[j] > a)
               /\ event.gems = <<Tiers[k]>>

\* the last roll value has been rolled at 1x and awarded the rarest tier
C29_Witness ==
    /\ draw.rolled /\ draw.multiplier = 100 /\ draw.roll = 999
    /\ event.emitted /\ event.gems = <<"Diamond">>
    /\ one_roll_bet(Ledger, 100, 998).event.gems = <<"Ruby">>
    /\ one_roll_bet(Ledger, 100, 700).event.gems = <<"Garnet">>

\* the tiers awarded by the rolls i .. n - 1 of a call, in roll order (by
\* halving the range)
RECURSIVE TiersInOrder(_, _, _, _)
TiersInOrder(seed, multiplier, i, n) ==
    IF i >= n THEN <<>>
    ELSE IF n = i + 1
    THEN LET roll == Roll(seed, i) IN
         IF roll < nothing_prob(multiplier) THEN <<>>
         ELSE <<gem_of(award_roll(roll, multiplier))>>
    ELSE LET mid == i + (n - i) \div 2 IN
         TiersInOrder(seed, multiplier, i, mid)
             \o TiersInOrder(seed, multiplier, mid, n)

\* the reward bets the settlement authority tries on the current state, with
\* their entropy, and the number of thresholds the loop took off the wager
RewardCalls ==
    {[r |-> gem_bet_and_settle(Ledger, AUTHORITY_PUBKEY, v, stake, payout,
                               multiplier, seed),
      v |-> v, mass |-> accum_wager[v] + stake, multiplier |-> multiplier,
      seed |-> seed] :
        v \in GemPlayers, stake \in GemStakes, payout \in {0, 1},
        multiplier \in Multipliers, seed \in Seeds}

RollsPerformed(c) == (c.mass - c.r.st.accum_wager[c.v]) \div threshold

\* C30: a reward bet_and_settle call emits exactly one GemsAwarded event if
\* at least one tier was awarded in the call and no event otherwise; the
\* event lists the awarded tiers in roll order, its roll count equals the
\* number of rolls the loop performed, and the number of listed tiers never
\* exceeds that roll count.
C30_GemsAwarded ==
    program = "airdrop" =>
        /\ \A c \in RewardCalls :
               LET n == RollsPerformed(c)
                   awarded == TiersInOrder(c.seed, c.multiplier, 0, n)
               IN  IF c.r.err = "Ok" /\ awarded # <<>>
                   THEN /\ c.r.event.emitted
                        /\ c.r.event.gems = awarded
                        /\ c.r.event.num_rolls = n
                        /\ Len(c.r.event.gems) <= c.r.event.num_rolls
                   ELSE c.r.event = NoEvent
        /\ event.emitted <=> event.gems # <<>>
        /\ event.emitted => last = [op |-> "bet_and_settle", err |-> "Ok"]
        /\ Len(event.gems) <= event.num_rolls

\* a call has emitted an event listing several tiers for more rolls than
\* tiers, and a call whose rolls award nothing would emit none
C30_Witness ==
    /\ program = "airdrop"
    /\ ~draw.rolled
    /\ event.emitted
    /\ Len(event.gems) >= 2
    /\ Len(event.gems) < event.num_rolls
    /\ \E c \in RewardCalls :
           c.r.err = "Ok" /\ RollsPerformed(c) >= 2 /\ ~c.r.event.emitted

\* the reward bet_and_settle (airdrop.rs) by its authority, at 1x, on the
\* current ledger
RewardBet(v, stake, payout) ==
    gem_bet_and_settle(Ledger, AUTHORITY_PUBKEY, v, stake, payout, 100,
                       SeedOf(0))

\* the plain bet_and_settle (src/lib.rs) by its authority, the pause gate
\* clear, on the current ledger
PlainBet(v, stake, payout) ==
    bet_and_settle(Ledger, InitPauseConfig, 0, ADMIN, v, stake, payout, 7)

\* C31: the reward variant of bet_and_settle accepts the same (stake, payout)
\* calls as the plain bet_and_settle and produces the same vault and house
\* balances, for every stake >= 0 and payout >= 0 (stake = 0, the pure
\* payout, included).
C31_SameAsPlain ==
    \A v \in Vaults, stake \in Amounts, payout \in Amounts :
        LET g == RewardBet(v, stake, payout)
            p == PlainBet(v, stake, payout)
        IN  /\ (g.err = "Ok") <=> (p.err = "Ok")
            /\ g.err = "Ok" =>
                   /\ g.st.balance = p.st.balance
                   /\ g.st.house = p.st.house

\* place_bet(stake) and then settle_game(stake, payout) on vault v, by the
\* authority, from the current ledger
Placed(v, stake) == place_bet(Ledger, AUTHORITY_PUBKEY, v, stake)
PlacedAndSettled(v, stake, payout) ==
    settle_game(Placed(v, stake).st, AUTHORITY_PUBKEY, v, stake, payout)

\* C32: on a vault with locked_amount = 0, bet_and_settle(stake, payout)
\* succeeds exactly when place_bet(stake) followed by settle_game(stake,
\* payout) both succeed, ends in the same vault and house balances, and
\* leaves locked_amount and active_games as they were before the call.
C32_PlaceThenSettle ==
    \A v \in Vaults, stake \in TryAmounts, payout \in TryAmounts :
        locked_amount[v] = 0 =>
            LET b == RewardBet(v, stake, payout)
                p == Placed(v, stake)
                s == PlacedAndSettled(v, stake, payout)
            IN  /\ (b.err = "Ok") <=> (p.err = "Ok" /\ s.err = "Ok")
                /\ b.err = "Ok" =>
                       /\ b.st.balance = s.st.balance
                       /\ b.st.house = s.st.house
                       /\ b.st.locked_amount = locked_amount
                       /\ b.st.active_games = active_games
                       /\ s.st.locked_amount = locked_amount
                       /\ s.st.active_games = active_games

\* a game has been settled; a vault with nothing locked holds lamports: a
\* winning bet on it succeeds either way, and one the house cannot pay fails
\* either way, in settle_game after a successful place_bet
C32_Witness ==
    /\ program = "smart_vault"
    /\ last = [op |-> "settle_game", err |-> "Ok"]
    /\ \E v \in Vaults :
           /\ locked_amount[v] = 0 /\ balance[v] >= 1
           /\ RewardBet(v, 1, 2).err = "Ok"
           /\ PlacedAndSettled(v, 1, 2).err = "Ok"
           /\ \E payout \in TryAmounts :
                  /\ RewardBet(v, 1, payout).err = "HouseInsufficient"
                  /\ Placed(v, 1).err = "Ok"
                  /\ PlacedAndSettled(v, 1, payout).err = "HouseInsufficient"

\* a deposit of one lamport that the owner's wallet covers: a gated operation
\* that only the pause gate can stop
GatedProbe == deposit(WithWallet(Ledger, "v1", 1), pause_config, now, "v1", 1)

\* C33: get_pause_status changes no state and reports the pause state the
\* gate applies at that time: emergency when emergency_pause is set,
\* maintenance (with a positive number of remaining hours) exactly when a
\* gated operation would be rejected with MaintenancePaused, and active
\* exactly when a gated operation would pass the pause gate.
C33_StatusMatchesGate ==
    (program = "smart_vault_v2" /\ pause_account(pause_config)) =>
        LET r == get_pause_status(pause_config, now)
            emergency == r.status.emergency_pause
            maintenance == ~r.status.emergency_pause /\ r.status.maintenance_pause
            active == ~r.status.emergency_pause /\ ~r.status.maintenance_pause
        IN  /\ r.err = "Ok"
            /\ r.cfg = pause_config
            /\ emergency <=> pause_config.emergency_pause
            /\ emergency => r.status.resume_time = "indefinite"
            /\ maintenance <=> GatedProbe.err = "MaintenancePaused"
            /\ maintenance <=> pause_gate(pause_config, now) = "MaintenancePaused"
            /\ maintenance =>
                   r.status.resume_time = "hours" /\ r.status.hours > 0
            /\ active <=> GatedProbe.err = "Ok"
            /\ active <=> pause_gate(pause_config, now) = "Ok"
            /\ active => r.status.resume_time = "now"

\* the status has been read 256 hours into a four-hour maintenance pause: it
\* reports maintenance with hours remaining, and the gate rejects
C33_Witness ==
    /\ program = "smart_vault_v2"
    /\ last = [op |-> "get_pause_status", err |-> "Ok"]
    /\ pause_config.maintenance_pause /\ ~pause_config.emergency_pause
    /\ now - pause_config.maintenance_start_time = 921600
    /\ get_pause_status(pause_config, now).status.hours = 4
    /\ GatedProbe.err = "MaintenancePaused"

\* settle_game(stake, payout) on vault v by the authority, on the current
\* ledger
SettleTry(v, stake, payout) ==
    settle_game(Ledger, AUTHORITY_PUBKEY, v, stake, payout)

C35_LockBookkeeping ==
    program = "smart_vault" =>
        \A v \in Vaults : (active_games[v] = 0) <=> (locked_amount[v] = 0)

\* C36: in every state reachable by start_maintenance_pause, emergency_pause
\* and unpause in any order and by any authorised caller, emergency_pause
\* and maintenance_pause are never both true.
C36_OneState ==
    (program = "smart_vault_v2" /\ pause_account(pause_config)) =>
        ~(pause_config.emergency_pause /\ pause_config.maintenance_pause)

\* C37: the primary and secondary authority identities stored in the house
\* record and in PauseConfig are equal in every reachable state: a successful
\* change_authority leaves no record holding the replaced identity.
C37_AuthoritiesAgree ==
    (program = "smart_vault_v2" /\ pause_account(pause_config)) =>
        /\ house_authority.multisig_authority = pause_config.multisig_authority
        /\ house_authority.admin_authority = pause_config.admin_authority

\* C38: every one of the seven tiers is attainable at every allowed
\* multiplier: for each multiplier in 50..300 and each tier from Garnet to
\* Diamond there is a roll value in [0, 1000) that awards that tier.
C38_EveryTierAttainable ==
    (program = "airdrop" /\ draw.multiplier \in MultiplierRange
        /\ ~draw.rolled) =>
        \A k \in 1..7 :
            \E roll \in RollValues :
                one_roll_bet(Ledger, draw.multiplier, roll).event.gems =
                    <<Tiers[k]>>

\* C39: after any sequence of successful reward bet_and_settle calls on a
\* vault that starts with accum_wager = 0, the sum of all stakes equals
\* threshold times the total number of rolls performed plus the vault's
\* current accum_wager.
C39_WagerAccounted ==
    program = "airdrop" =>
        \A v \in GemPlayers :
            wagered.stakes = threshold * wagered.rolls + accum_wager[v]

\* three bets have been made; one ran into the roll cap and left a whole
\* threshold behind, which a later call rolled
C39_Witness ==
    /\ program = "airdrop"
    /\ wagered.calls = 3
    /\ wagered.rolls > MAX_ROLLS + 1
    /\ wagered.stakes = (MAX_ROLLS + 2) * threshold + 2
    /\ accum_wager["v1"] = 0

\* the first k entries of the signed batch b
SignedPrefix(b, k) ==
    [users |-> SubSeq(b.users, 1, k), profits |-> SubSeq(b.profits, 1, k),
     accounts |-> SubSeq(b.accounts, 1, k)]

\* entry k of b is a loss larger than the balance its vault holds when the
\* entries before it have been applied
LossExceedsAt(b, k, overflow_checks) ==
    LET pre == signed_loop(Ledger, overflow_checks, SignedPrefix(b, k - 1), 1)
    IN  /\ pre.err = "Ok"
        /\ b.profits[k] < 0
        /\ -b.profits[k] > pre.st.balance[b.users[k]]

\* C40: in the signed-profit batch_settle an entry with negative profit p
\* moves exactly |p| from that user's vault to the house, for every negative
\* i64 value of p (the minimum included); when |p| exceeds the vault balance
\* the whole batch fails with no effect; no reachable state has a vault or
\* house balance below zero or wrapped around.
C40_SignedLoss ==
    program = "smart_vault_batch" =>
        /\ house \in 0..MaxSupply
        /\ \A v \in Vaults : balance[v] \in 0..MaxSupply
        /\ \A overflow_checks \in BOOLEAN, b \in SignedBatches :
               LET r == batch_settle_signed(Ledger, overflow_checks,
                                            AUTHORITY_PUBKEY, b)
               IN  /\ (\E k \in 1..Len(b.users) :
                          LossExceedsAt(b, k, overflow_checks)) =>
                          r.err # "Ok" /\ Committed(Ledger, r) = Ledger
                   /\ (Len(b.users) = 1 /\ b.profits[1] < 0
                          /\ -b.profits[1] <= balance[b.users[1]]) =>
                          /\ r.err = "Ok"
                          /\ r.st = VaultToHouse(Ledger, b.users[1],
                                                 -b.profits[1])

=============================================================================
